---- MODULE Spec2Model ----
(***************************************************************************)
(* Darts match scoring (merev/ds-game-api, package game).                  *)
(*                                                                         *)
(* The stored state is the games row of one match, its seats and its throw *)
(* log; the operations are the Repository methods CreateGame, GetGame,     *)
(* AddThrow and UndoLastThrow, each split at its SQL statements, and the   *)
(* pure reconstruction computeScores/syncGameStatus they share.  The       *)
(* model follows the Repository with legs and sets (src/unnamed/part_001); *)
(* its AddThrow and UndoLastThrow are, line for line, those of             *)
(* src/internal/game/repository.go.                                        *)
(*                                                                         *)
(* Go pointers (to int, string, MatchScore) are sequences of length at     *)
(* most one: <<>> is nil, <<v>> points at v.  Go slices are sequences;     *)
(* the 0-based indices CurrentSetIndex / CurrentLegIndex keep their Go     *)
(* values and are shifted by one where a sequence is addressed.            *)
(***************************************************************************)
EXTENDS Integers, Sequences, FiniteSets, TLC

VARIABLES
    gameRow,      \* games row of the match: <<>> (no such row) or <<[Config, Status, WinnerID]>>
    gamePlayers,  \* game_players joined with players, ORDER BY seat: sequence of player ids
    throws,       \* throws rows of the match, ORDER BY created_at, id
    nextId,       \* number of throws rows ever inserted (ids and created_at are fresh, increasing)
    pc,           \* per request: the statement the handler is about to run
    call,         \* per request: the operation and its request body
    loc,          \* per request: the handler's local variables
    ret,          \* per request: the result of its last finished call
    rs,           \* computeScores' loop state while it ranges over History
    hist          \* the part of History the loop has consumed: its length and last element

vars == <<gameRow, gamePlayers, throws, nextId, pc, call, loc, ret, rs, hist>>

dbVars == <<gameRow, gamePlayers, throws, nextId>>
procVars == <<pc, call, loc, ret>>
replayVars == <<rs, hist>>

None == <<>>
Some(x) == <<x>>

(***************************************************************************)
(* Bounds of the model.                                                    *)
(***************************************************************************)
MaxReplay == 7        \* throws fed to one replay
MaxInserts == 4       \* throws rows inserted over one run of serialized requests
MaxRacing == 2        \* throws rows inserted over one run of concurrent requests
MaxLog == 4           \* throws of a log loaded for one replay

(***************************************************************************)
(* Program constants.                                                      *)
(***************************************************************************)
DefaultStart == 501
MinDarts == 1
MaxDarts == 3
MinVisit == 0
MaxVisit == 180

\* Go map lookup: the zero value for a missing key.
MapGet(m, k) == IF k \in DOMAIN m THEN m[k] ELSE 0

Range(s) == {s[i] : i \in DOMAIN s}

\* playerIndex of computeScores: 0-based index of a seated player.
playerIndex(Players, pid) == (CHOOSE i \in DOMAIN Players : Players[i] = pid) - 1

Seated(Players, pid) == \E i \in DOMAIN Players : Players[i] = pid

(***************************************************************************)
(* Match helpers (legs & sets).                                            *)
(***************************************************************************)
computeLegsWonInSet(set) ==
    LET won == {set.Legs[i].WinnerID[1] : i \in {j \in DOMAIN set.Legs : set.Legs[j].WinnerID # None}}
    IN [p \in won |-> Cardinality({i \in DOMAIN set.Legs : set.Legs[i].WinnerID = Some(p)})]

computeSetsWon(match) ==
    LET won == {match.Sets[i].WinnerID[1] : i \in {j \in DOMAIN match.Sets : match.Sets[j].WinnerID # None}}
    IN [p \in won |-> Cardinality({i \in DOMAIN match.Sets : match.Sets[i].WinnerID = Some(p)})]

newScoresByPlayer(Players, start) == [p \in Range(Players) |-> start]

NewLeg(n, start, Players) ==
    [LegNumber |-> n, StartingScore |-> start,
     ScoresByPlayer |-> newScoresByPlayer(Players, start),
     WinnerID |-> None, FinishedAt |-> None]

\* startNextLegOrSet opening a new set whether or not the current set has a winner.
startNextLegOrSet_AlwaysNewSet(match, start, Players) ==
    IF Len(Players) = 0 THEN match
    ELSE LET currentSet == match.Sets[match.CurrentSetIndex + 1]
             newSet == [SetNumber |-> Len(match.Sets) + 1,
                        LegsToWin |-> currentSet.LegsToWin,
                        Legs |-> <<NewLeg(1, start, Players)>>,
                        WinnerID |-> None, FinishedAt |-> None]
         IN [match EXCEPT !.Sets = Append(match.Sets, newSet),
                          !.CurrentSetIndex = Len(match.Sets),
                          !.CurrentLegIndex = 0]

\* startNextLegOrSet leaving the leg pointer one past the leg it appends.
startNextLegOrSet_PastTheEnd(match, start, Players) ==
    IF Len(Players) = 0 THEN match
    ELSE LET currentSet == match.Sets[match.CurrentSetIndex + 1] IN
         IF currentSet.WinnerID # None
         THEN LET newSet == [SetNumber |-> Len(match.Sets) + 1,
                             LegsToWin |-> currentSet.LegsToWin,
                             Legs |-> <<NewLeg(1, start, Players)>>,
                             WinnerID |-> None, FinishedAt |-> None]
              IN [match EXCEPT !.Sets = Append(match.Sets, newSet),
                               !.CurrentSetIndex = Len(match.Sets),
                               !.CurrentLegIndex = 0]
         ELSE LET legs == Append(currentSet.Legs,
                                 NewLeg(Len(currentSet.Legs) + 1, start, Players))
              IN [match EXCEPT !.Sets[match.CurrentSetIndex + 1].Legs = legs,
                               !.CurrentLegIndex = Len(legs)]

startNextLegOrSet(match, start, Players) ==
    IF Len(Players) = 0 THEN match
    ELSE LET currentSet == match.Sets[match.CurrentSetIndex + 1] IN
         IF currentSet.WinnerID # None
         THEN LET newSet == [SetNumber |-> Len(match.Sets) + 1,
                             LegsToWin |-> currentSet.LegsToWin,
                             Legs |-> <<NewLeg(1, start, Players)>>,
                             WinnerID |-> None, FinishedAt |-> None]
              IN [match EXCEPT !.Sets = Append(match.Sets, newSet),
                               !.CurrentSetIndex = Len(match.Sets),
                               !.CurrentLegIndex = 0]
         ELSE LET legs == Append(currentSet.Legs,
                                 NewLeg(Len(currentSet.Legs) + 1, start, Players))
              IN [match EXCEPT !.Sets[match.CurrentSetIndex + 1].Legs = legs,
                               !.CurrentLegIndex = Len(legs) - 1]

(***************************************************************************)
(* computeScores (X01 with legs & sets), one definition per part of it.    *)
(***************************************************************************)
\* startOf without the default: an absent starting score counts as 0.
startOf_NoDefault(Config) == IF Config.StartingScore # None THEN Config.StartingScore[1] ELSE 0

startOf(Config) == IF Config.StartingScore # None THEN Config.StartingScore[1] ELSE DefaultStart

legsToWinOf(Config) == IF Config.Legs <= 0 THEN 1 ELSE Config.Legs

setsToWinOf(Config) == IF Config.Sets <= 0 THEN 1 ELSE Config.Sets

\* emptyScores with a remaining score derived for every player.
emptyScores_AtStart(Players) ==
    [i \in DOMAIN Players |-> [PlayerID |-> Players[i], Remaining |-> Some(DefaultStart), LastVisit |-> None]]

\* emptyScores with Go's zero value, 0, as every player's remaining.
emptyScores_ZeroRemaining(Players) ==
    [i \in DOMAIN Players |-> [PlayerID |-> Players[i], Remaining |-> Some(0), LastVisit |-> None]]

\* scores with one entry per player, nothing derived yet.
emptyScores(Players) ==
    [i \in DOMAIN Players |-> [PlayerID |-> Players[i], Remaining |-> None, LastVisit |-> None]]

\* "Reset per-player remaining & last visit" for a fresh leg.
freshScores(Players, start) ==
    [i \in DOMAIN Players |-> [PlayerID |-> Players[i], Remaining |-> Some(start), LastVisit |-> None]]

freshRemaining(Players, start) == [i \in DOMAIN Players |-> start]

\* The state of the replay loop before the first throw: 1 set, 1 leg.
initReplay(Config, Players) ==
    LET start == startOf(Config) IN
    [match |-> [SetsToWin |-> setsToWinOf(Config),
                CurrentSetIndex |-> 0,
                CurrentLegIndex |-> 0,
                Sets |-> << [SetNumber |-> 1,
                             LegsToWin |-> legsToWinOf(Config),
                             Legs |-> <<NewLeg(1, start, Players)>>,
                             WinnerID |-> None, FinishedAt |-> None] >>],
     remaining |-> freshRemaining(Players, start),
     scores |-> freshScores(Players, start),
     matchWinnerID |-> None]

currentLeg(match) == match.Sets[match.CurrentSetIndex + 1].Legs[match.CurrentLegIndex + 1]

\* "If leg already finished, next throw starts a new leg or set."
advanceIfFinished(st, start, Players) ==
    IF currentLeg(st.match).WinnerID # None
    THEN [st EXCEPT !.match = startNextLegOrSet(st.match, start, Players),
                    !.remaining = freshRemaining(Players, start),
                    !.scores = freshScores(Players, start)]
    ELSE st

\* cur: the leg's entry, falling back to the tracked remaining, then to start.
curOf(st, t, start, Players) ==
    LET c == MapGet(currentLeg(st.match).ScoresByPlayer, t.PlayerID)
        r == st.remaining[playerIndex(Players, t.PlayerID) + 1]
    IN IF c = 0 THEN (IF r = 0 THEN start ELSE r) ELSE c

\* isBust without its first rule: a negative result is accepted.
isBust_NoNegative(cand, DoubleOut) == DoubleOut /\ cand = 1

\* isBust without its second rule: leaving 1 under double-out is accepted.
isBust_NoDoubleOut(cand, DoubleOut) == cand < 0

\* Bust rules: result < 0, or double-out and result == 1.
isBust(cand, DoubleOut) == cand < 0 \/ (DoubleOut /\ cand = 1)

\* acceptVisit without the record of the visit as the player's last visit.
acceptVisit_NoLastVisit(st, t, cand, Players) ==
    LET i == playerIndex(Players, t.PlayerID) + 1
        si == st.match.CurrentSetIndex + 1
        li == st.match.CurrentLegIndex + 1
        by == st.match.Sets[si].Legs[li].ScoresByPlayer
    IN [st EXCEPT !.match.Sets[si].Legs[li].ScoresByPlayer =
                       [p \in DOMAIN by \cup {t.PlayerID} |-> IF p = t.PlayerID THEN cand ELSE by[p]],
                  !.remaining[i] = cand,
                  !.scores[i] = [PlayerID |-> st.scores[i].PlayerID,
                                 Remaining |-> Some(cand),
                                 LastVisit |-> st.scores[i].LastVisit]]

\* acceptVisit without the write to the leg's map.
acceptVisit_NoLegMap(st, t, cand, Players) ==
    LET i == playerIndex(Players, t.PlayerID) + 1
    IN [st EXCEPT !.remaining[i] = cand,
                  !.scores[i] = [PlayerID |-> st.scores[i].PlayerID,
                                 Remaining |-> Some(cand),
                                 LastVisit |-> Some(t.VisitScore)]]

\* acceptVisit writing cand to every player's entry of the leg.
acceptVisit_WholeLeg(st, t, cand, Players) ==
    LET i == playerIndex(Players, t.PlayerID) + 1
        si == st.match.CurrentSetIndex + 1
        li == st.match.CurrentLegIndex + 1
        by == st.match.Sets[si].Legs[li].ScoresByPlayer
    IN [st EXCEPT !.match.Sets[si].Legs[li].ScoresByPlayer = [p \in DOMAIN by \cup {t.PlayerID} |-> cand],
                  !.remaining[i] = cand,
                  !.scores[i] = [PlayerID |-> st.scores[i].PlayerID,
                                 Remaining |-> Some(cand),
                                 LastVisit |-> Some(t.VisitScore)]]

\* "Accept the visit": the leg's map, remaining and scores take cand.
acceptVisit(st, t, cand, Players) ==
    LET i == playerIndex(Players, t.PlayerID) + 1
        si == st.match.CurrentSetIndex + 1
        li == st.match.CurrentLegIndex + 1
        by == st.match.Sets[si].Legs[li].ScoresByPlayer
    IN [st EXCEPT !.match.Sets[si].Legs[li].ScoresByPlayer =
                       [p \in DOMAIN by \cup {t.PlayerID} |-> IF p = t.PlayerID THEN cand ELSE by[p]],
                  !.remaining[i] = cand,
                  !.scores[i] = [PlayerID |-> st.scores[i].PlayerID,
                                 Remaining |-> Some(cand),
                                 LastVisit |-> Some(t.VisitScore)]]

\* checkout sealing the set only when the winner's legs exceed legs-to-win.
checkout_StrictLegs(st, t, start, Players) ==
    LET si == st.match.CurrentSetIndex + 1
        li == st.match.CurrentLegIndex + 1
        winner == t.PlayerID
        m1 == [st.match EXCEPT !.Sets[si].Legs[li].WinnerID = Some(winner),
                               !.Sets[si].Legs[li].FinishedAt = Some(t.CreatedAt)]
        setWon == MapGet(computeLegsWonInSet(m1.Sets[si]), winner) > m1.Sets[si].LegsToWin
        m2 == IF setWon
              THEN [m1 EXCEPT !.Sets[si].WinnerID = Some(winner),
                              !.Sets[si].FinishedAt = Some(t.CreatedAt)]
              ELSE m1
        matchWon == setWon /\ MapGet(computeSetsWon(m2), winner) >= m2.SetsToWin
    IN IF matchWon
       THEN [st EXCEPT !.match = m2, !.matchWinnerID = Some(winner)]
       ELSE [st EXCEPT !.match = startNextLegOrSet(m2, start, Players),
                       !.remaining = freshRemaining(Players, start),
                       !.scores = freshScores(Players, start)]

\* checkout sealing the match only when the winner's sets exceed sets-to-win.
checkout_StrictSets(st, t, start, Players) ==
    LET si == st.match.CurrentSetIndex + 1
        li == st.match.CurrentLegIndex + 1
        winner == t.PlayerID
        m1 == [st.match EXCEPT !.Sets[si].Legs[li].WinnerID = Some(winner),
                               !.Sets[si].Legs[li].FinishedAt = Some(t.CreatedAt)]
        setWon == MapGet(computeLegsWonInSet(m1.Sets[si]), winner) >= m1.Sets[si].LegsToWin
        m2 == IF setWon
              THEN [m1 EXCEPT !.Sets[si].WinnerID = Some(winner),
                              !.Sets[si].FinishedAt = Some(t.CreatedAt)]
              ELSE m1
        matchWon == setWon /\ MapGet(computeSetsWon(m2), winner) > m2.SetsToWin
    IN IF matchWon
       THEN [st EXCEPT !.match = m2, !.matchWinnerID = Some(winner)]
       ELSE [st EXCEPT !.match = startNextLegOrSet(m2, start, Players),
                       !.remaining = freshRemaining(Players, start),
                       !.scores = freshScores(Players, start)]

\* checkout without the immediate advance: the next leg or set is opened
\* only when the next throw finds the leg finished.
checkout_Lazy(st, t, start, Players) ==
    LET si == st.match.CurrentSetIndex + 1
        li == st.match.CurrentLegIndex + 1
        winner == t.PlayerID
        m1 == [st.match EXCEPT !.Sets[si].Legs[li].WinnerID = Some(winner),
                               !.Sets[si].Legs[li].FinishedAt = Some(t.CreatedAt)]
        setWon == MapGet(computeLegsWonInSet(m1.Sets[si]), winner) >= m1.Sets[si].LegsToWin
        m2 == IF setWon
              THEN [m1 EXCEPT !.Sets[si].WinnerID = Some(winner),
                              !.Sets[si].FinishedAt = Some(t.CreatedAt)]
              ELSE m1
        matchWon == setWon /\ MapGet(computeSetsWon(m2), winner) >= m2.SetsToWin
    IN IF matchWon
       THEN [st EXCEPT !.match = m2, !.matchWinnerID = Some(winner)]
       ELSE [st EXCEPT !.match = m2]

\* "Checkout: leg finished": seal the leg, then the set and the match if the
\* winner's counts reach the thresholds; otherwise advance to the next leg/set.
checkout(st, t, start, Players) ==
    LET si == st.match.CurrentSetIndex + 1
        li == st.match.CurrentLegIndex + 1
        winner == t.PlayerID
        m1 == [st.match EXCEPT !.Sets[si].Legs[li].WinnerID = Some(winner),
                               !.Sets[si].Legs[li].FinishedAt = Some(t.CreatedAt)]
        setWon == MapGet(computeLegsWonInSet(m1.Sets[si]), winner) >= m1.Sets[si].LegsToWin
        m2 == IF setWon
              THEN [m1 EXCEPT !.Sets[si].WinnerID = Some(winner),
                              !.Sets[si].FinishedAt = Some(t.CreatedAt)]
              ELSE m1
        matchWon == setWon /\ MapGet(computeSetsWon(m2), winner) >= m2.SetsToWin
    IN IF matchWon
       THEN [st EXCEPT !.match = m2, !.matchWinnerID = Some(winner)]
       ELSE [st EXCEPT !.match = startNextLegOrSet(m2, start, Players),
                       !.remaining = freshRemaining(Players, start),
                       !.scores = freshScores(Players, start)]

\* The loop body applying AddThrow's visit-score domain: a visit above 180 is skipped.
replayThrow_VisitDomain(st, t, Config, Players) ==
    IF st.matchWinnerID # None THEN st
    ELSE IF ~Seated(Players, t.PlayerID) \/ t.VisitScore > MaxVisit THEN st
    ELSE LET start == startOf(Config)
             st1 == advanceIfFinished(st, start, Players)
             cand == curOf(st1, t, start, Players) - t.VisitScore
         IN IF isBust(cand, Config.DoubleOut) THEN st1
            ELSE LET st2 == acceptVisit(st1, t, cand, Players)
                 IN IF cand = 0 THEN checkout(st2, t, start, Players) ELSE st2

\* The loop body starting every player afresh on a throw by an unseated player.
replayThrow_UnseatedResets(st, t, Config, Players) ==
    IF st.matchWinnerID # None THEN st
    ELSE IF ~Seated(Players, t.PlayerID)
         THEN [st EXCEPT !.remaining = freshRemaining(Players, startOf(Config)),
                         !.scores = freshScores(Players, startOf(Config))]
    ELSE LET start == startOf(Config)
             st1 == advanceIfFinished(st, start, Players)
             cand == curOf(st1, t, start, Players) - t.VisitScore
         IN IF isBust(cand, Config.DoubleOut) THEN st1
            ELSE LET st2 == acceptVisit(st1, t, cand, Players)
                 IN IF cand = 0 THEN checkout(st2, t, start, Players) ELSE st2

\* The loop body without the checkout: a visit that leaves 0 is only scored.
replayThrow_NoCheckout(st, t, Config, Players) ==
    IF st.matchWinnerID # None THEN st
    ELSE IF ~Seated(Players, t.PlayerID) THEN st
    ELSE LET start == startOf(Config)
             st1 == advanceIfFinished(st, start, Players)
             cand == curOf(st1, t, start, Players) - t.VisitScore
         IN IF isBust(cand, Config.DoubleOut) THEN st1
            ELSE acceptVisit(st1, t, cand, Players)

\* The loop body without the break: throws after the match winner are replayed.
replayThrow_NoBreak(st, t, Config, Players) ==
    IF ~Seated(Players, t.PlayerID) THEN st
    ELSE LET start == startOf(Config)
             st1 == advanceIfFinished(st, start, Players)
             cand == curOf(st1, t, start, Players) - t.VisitScore
         IN IF isBust(cand, Config.DoubleOut) THEN st1
            ELSE LET st2 == acceptVisit(st1, t, cand, Players)
                 IN IF cand = 0 THEN checkout(st2, t, start, Players) ELSE st2

\* One iteration of "for _, t := range state.History".  Once a match winner
\* is set the loop has been left (break), so later throws change nothing.
replayThrow(st, t, Config, Players) ==
    IF st.matchWinnerID # None THEN st
    ELSE IF ~Seated(Players, t.PlayerID) THEN st
    ELSE LET start == startOf(Config)
             st1 == advanceIfFinished(st, start, Players)
             cand == curOf(st1, t, start, Players) - t.VisitScore
         IN IF isBust(cand, Config.DoubleOut) THEN st1
            ELSE LET st2 == acceptVisit(st1, t, cand, Players)
                 IN IF cand = 0 THEN checkout(st2, t, start, Players) ELSE st2

RECURSIVE replayAll(_, _, _, _)
replayAll(st, History, Config, Players) ==
    IF History = <<>> THEN st
    ELSE replayAll(replayThrow(st, Head(History), Config, Players), Tail(History), Config, Players)

\* currentPlayerID without the wrap-around: the last seat keeps the turn.
currentPlayerID_NoWrap(Players, History) ==
    IF Len(History) = 0 THEN Players[1]
    ELSE LET last == History[Len(History)] IN
         IF Seated(Players, last.PlayerID)
         THEN LET next == playerIndex(Players, last.PlayerID) + 2
              IN Players[IF next > Len(Players) THEN Len(Players) ELSE next]
         ELSE Players[1]

\* "Determine current player based on last throw; if no throws, first player."
currentPlayerID(Players, History) ==
    IF Len(History) = 0 THEN Players[1]
    ELSE LET last == History[Len(History)] IN
         IF Seated(Players, last.PlayerID)
         THEN Players[((playerIndex(Players, last.PlayerID) + 1) % Len(Players)) + 1]
         ELSE Players[1]

\* computeScores: state is a GameState with Config, Status, Players, History
\* and WinnerID loaded; the result has the derived fields filled in.
computeScores(state) ==
    IF Len(state.Players) = 0
    THEN [state EXCEPT !.Scores = <<>>, !.CurrentPlayerID = "", !.MatchScore = None]
    ELSE IF state.Config.Mode # "X01"
    THEN [state EXCEPT !.Scores = emptyScores(state.Players),
                       !.CurrentPlayerID = currentPlayerID(state.Players, state.History),
                       !.MatchScore = None]
    ELSE LET st == replayAll(initReplay(state.Config, state.Players), state.History,
                             state.Config, state.Players)
         IN [state EXCEPT !.Scores = st.scores,
                          !.MatchScore = Some(st.match),
                          !.WinnerID = st.matchWinnerID,
                          !.CurrentPlayerID = currentPlayerID(state.Players, state.History)]

(***************************************************************************)
(* syncGameStatus: the winner and lifecycle derived from a loaded state.   *)
(***************************************************************************)
\* The winners the loop over the won-sets map (or, without a match tree, over
\* Scores) can pick; Go ranges over a map in no fixed order.
syncWinners(state) ==
    IF state.MatchScore # None
    THEN LET setsWon == computeSetsWon(state.MatchScore[1])
             enough == {p \in DOMAIN setsWon : setsWon[p] >= state.MatchScore[1].SetsToWin}
         IN IF enough = {} THEN {None} ELSE {Some(p) : p \in enough}
    ELSE LET zero == {i \in DOMAIN state.Scores :
                         state.Scores[i].Remaining # None /\ state.Scores[i].Remaining[1] = 0}
         IN IF zero = {} THEN {None}
            ELSE {Some(state.Scores[CHOOSE i \in zero : \A j \in zero : i <= j].PlayerID)}

\* newStatusOf without "pending": a match without throws is in progress.
newStatusOf_NoPending(winnerID, History) ==
    IF winnerID # None THEN "finished" ELSE "in_progress"

newStatusOf(winnerID, History) ==
    IF winnerID # None THEN "finished"
    ELSE IF Len(History) > 0 THEN "in_progress"
    ELSE "pending"

sameWinner(stateWinnerID, winnerID) ==
    \/ stateWinnerID = None /\ winnerID = None
    \/ stateWinnerID # None /\ winnerID # None /\ stateWinnerID[1] = winnerID[1]

\* syncGameStatus that always sends its UPDATE.
syncUnchanged_Never(state, winnerID) == FALSE

\* syncGameStatus treating a stored "finished" as final.
syncUnchanged_FinishedIsFinal(state, winnerID) ==
    \/ state.Status = "finished"
    \/ newStatusOf(winnerID, state.History) = state.Status /\ sameWinner(state.WinnerID, winnerID)

\* syncGameStatus comparing the winner alone, not the status.
syncUnchanged_WinnerOnly(state, winnerID) == sameWinner(state.WinnerID, winnerID)

\* syncGameStatus returns without an UPDATE.
syncUnchanged(state, winnerID) ==
    newStatusOf(winnerID, state.History) = state.Status /\ sameWinner(state.WinnerID, winnerID)

(***************************************************************************)
(* getGameState: the games row, the seats and the throws, then             *)
(* computeScores.                                                          *)
(***************************************************************************)
getGameState(row, Players, History) ==
    computeScores([Config |-> row.Config, Status |-> row.Status, WinnerID |-> row.WinnerID,
                   Players |-> Players, History |-> History,
                   Scores |-> <<>>, CurrentPlayerID |-> "", MatchScore |-> None])

(***************************************************************************)
(* The flat reconstructor of src/internal/game/repository.go: one leg, no   *)
(* match tree.  Its computeScores and syncGameStatus carry the prefix flat. *)
(***************************************************************************)
\* remaining and scores before the first throw.
flatInit(Config, Players) ==
    [remaining |-> freshRemaining(Players, startOf(Config)),
     scores |-> freshScores(Players, startOf(Config))]

\* One iteration of the flat "for _, t := range state.History".
flatReplayThrow(st, t, Config, Players) ==
    IF ~Seated(Players, t.PlayerID) THEN st
    ELSE LET i == playerIndex(Players, t.PlayerID) + 1
             cand == st.remaining[i] - t.VisitScore
         IN IF cand < 0 THEN st
            ELSE IF Config.DoubleOut /\ cand = 1 THEN st
            ELSE [st EXCEPT !.remaining[i] = cand,
                            !.scores[i] = [PlayerID |-> st.scores[i].PlayerID,
                                           Remaining |-> Some(cand),
                                           LastVisit |-> Some(t.VisitScore)]]

RECURSIVE flatReplayAll(_, _, _, _)
flatReplayAll(st, History, Config, Players) ==
    IF History = <<>> THEN st
    ELSE flatReplayAll(flatReplayThrow(st, Head(History), Config, Players), Tail(History),
                       Config, Players)

\* The flat computeScores: Scores and CurrentPlayerID, nothing else.
flatComputeScores(state) ==
    IF Len(state.Players) = 0
    THEN [state EXCEPT !.Scores = <<>>, !.CurrentPlayerID = ""]
    ELSE [state EXCEPT
            !.Scores = IF state.Config.Mode = "X01"
                       THEN flatReplayAll(flatInit(state.Config, state.Players), state.History,
                                          state.Config, state.Players).scores
                       ELSE emptyScores(state.Players),
            !.CurrentPlayerID = currentPlayerID(state.Players, state.History)]

\* The winner of the flat syncGameStatus: the first player, in seat order,
\* whose remaining is 0.
flatSyncWinner(state) ==
    LET zero == {i \in DOMAIN state.Scores :
                    state.Scores[i].Remaining # None /\ state.Scores[i].Remaining[1] = 0}
    IN IF zero = {} THEN None
       ELSE Some(state.Scores[CHOOSE i \in zero : \A j \in zero : i <= j].PlayerID)

\* strings.TrimSpace on the strings the requests of the model carry.
TrimSpace(s) ==
    CASE s = " " -> ""
      [] s = " A " -> "A"
      [] s = " X01 " -> "X01"
      [] OTHER -> s

(***************************************************************************)
(* Replay of an arbitrary throw log by computeScores, one loop iteration   *)
(* per step.  gameRow and gamePlayers hold the configuration and seats the *)
(* replay was handed; rs is the loop state (<<>> when the mode is not X01  *)
(* and no loop runs); hist records how much of History has been consumed,  *)
(* its last element (all that the code after the loop reads of History)    *)
(* and which branch the last iteration took.                               *)
(***************************************************************************)
\* The (configuration, seats) pairs a replay is handed.
ReplayInputs ==
    {[Config |-> [Mode |-> "X01", StartingScore |-> s, Legs |-> l[1], Sets |-> l[2], DoubleOut |-> d],
      Players |-> ps] :
        s \in {Some(0), Some(2)}, l \in {<<1, 1>>, <<2, 2>>}, d \in BOOLEAN,
        ps \in {<<"A">>, <<"A", "B">>}}
    \cup {[Config |-> [Mode |-> "X01", StartingScore |-> Some(2), Legs |-> 2, Sets |-> 1, DoubleOut |-> TRUE],
           Players |-> <<"A", "B", "C">>],
          [Config |-> [Mode |-> "X01", StartingScore |-> None, Legs |-> 1, Sets |-> 1, DoubleOut |-> TRUE],
           Players |-> <<"A", "B">>],
          [Config |-> [Mode |-> "Cricket", StartingScore |-> None, Legs |-> 1, Sets |-> 1, DoubleOut |-> FALSE],
           Players |-> <<"A", "B", "C">>]}

ReplayVisits == {0, 1, 2, MaxVisit}

Config == gameRow[1].Config

IsX01 == Config.Mode = "X01"

\* Which branch of the loop body a throw takes from loop state st.
outcomeOf(st, t, cfg, Players) ==
    IF st.matchWinnerID # None THEN "stopped"
    ELSE IF ~Seated(Players, t.PlayerID) THEN "skipped"
    ELSE LET st1 == advanceIfFinished(st, startOf(cfg), Players)
             cand == curOf(st1, t, startOf(cfg), Players) - t.VisitScore
         IN IF isBust(cand, cfg.DoubleOut) THEN "bust"
            ELSE IF cand = 0 THEN "checkout" ELSE "scored"

ReplayInit ==
    /\ \E in \in ReplayInputs :
          /\ gameRow = Some([Config |-> in.Config, Status |-> "pending", WinnerID |-> None])
          /\ gamePlayers = in.Players
          /\ rs = IF in.Config.Mode = "X01" THEN Some(initReplay(in.Config, in.Players)) ELSE None
    /\ hist = [n |-> 0, last |-> <<>>, outcome |-> "none", lazy |-> FALSE]
    /\ throws = <<>>
    /\ nextId = 0
    /\ pc = <<>> /\ call = <<>> /\ loc = <<>> /\ ret = <<>>

ReplayThrow ==
    /\ hist.n < MaxReplay
    /\ \E pid \in Range(gamePlayers) \cup {"Z"}, v \in ReplayVisits :
          LET t == [ID |-> hist.n + 1, PlayerID |-> pid, VisitScore |-> v,
                    DartsThrown |-> MaxDarts, CreatedAt |-> hist.n + 1]
          IN /\ rs' = IF IsX01 THEN Some(replayThrow(rs[1], t, Config, gamePlayers)) ELSE rs
             /\ hist' = [n |-> hist.n + 1, last |-> <<t>>,
                         outcome |-> IF IsX01 THEN outcomeOf(rs[1], t, Config, gamePlayers)
                                     ELSE "none",
                         lazy |-> IsX01 /\ rs[1].matchWinnerID = None /\ Seated(gamePlayers, pid)
                                         /\ currentLeg(rs[1].match).WinnerID # None]
    /\ UNCHANGED <<dbVars, procVars>>

ReplayNext == ReplayThrow

SpecReplay == ReplayInit /\ [][ReplayNext]_vars

\* What computeScores would hand back if History ended here.
ReplayCurrentPlayerID == currentPlayerID(gamePlayers, hist.last)

ReplayScores == IF IsX01 THEN rs[1].scores ELSE emptyScores(gamePlayers)

\* The GameState computeScores would hand back if History ended here.
ReplayResult ==
    [Config |-> Config, Status |-> gameRow[1].Status,
     WinnerID |-> IF IsX01 THEN rs[1].matchWinnerID ELSE gameRow[1].WinnerID,
     Players |-> gamePlayers, History |-> hist.last,
     Scores |-> ReplayScores, CurrentPlayerID |-> ReplayCurrentPlayerID,
     MatchScore |-> IF IsX01 THEN Some(rs[1].match) ELSE None]

(***************************************************************************)
(* computeScores over a whole log.  getGameState loads the throws of the   *)
(* match, any rows the table may hold, and computeScores ranges over them: *)
(* pc is <<"load">> while rows are loaded, <<"loop">> while the loop runs  *)
(* and <<"done">> once it is left, at the end of History or by its break.  *)
(* throws is History, hist.n the number of throws the loop has visited.    *)
(***************************************************************************)
\* The (configuration, seats) pairs of the logs: 501 double-out, starting
\* score 2 with one and with two legs to win, and starting score 0.
LogInputs ==
    {[Config |-> [Mode |-> "X01", StartingScore |-> None, Legs |-> 1, Sets |-> 1, DoubleOut |-> TRUE],
      Players |-> <<"A", "B">>],
     [Config |-> [Mode |-> "X01", StartingScore |-> Some(0), Legs |-> 1, Sets |-> 1, DoubleOut |-> FALSE],
      Players |-> <<"A", "B">>],
     [Config |-> [Mode |-> "X01", StartingScore |-> Some(2), Legs |-> 1, Sets |-> 1, DoubleOut |-> FALSE],
      Players |-> <<"A", "B">>],
     [Config |-> [Mode |-> "X01", StartingScore |-> Some(2), Legs |-> 2, Sets |-> 1, DoubleOut |-> TRUE],
      Players |-> <<"A", "B">>]}

\* The (player, visit score) pairs of the rows of a log: from 501 the seated
\* players with visits that bring 501 to 0 in two visits; from 2 the seated
\* players and an unseated one with visits that score, bust and check out;
\* from 0 the same players with the visit that checks out and one that busts.
LogChoices(cfg, Players) ==
    IF cfg.StartingScore = None
    THEN {<<p, v>> : p \in Range(Players), v \in {100, 140, 361}}
    ELSE IF cfg.StartingScore = Some(0)
    THEN {<<p, v>> : p \in Range(Players) \cup {"Z"}, v \in {0, 1}}
    ELSE {<<p, v>> : p \in Range(Players) \cup {"Z"}, v \in {1, 2}}

LogInit ==
    /\ \E in \in LogInputs :
          /\ gameRow = Some([Config |-> in.Config, Status |-> "pending", WinnerID |-> None])
          /\ gamePlayers = in.Players
          /\ rs = Some(initReplay(in.Config, in.Players))
    /\ hist = [n |-> 0, last |-> <<>>, outcome |-> "none", lazy |-> FALSE]
    /\ throws = <<>>
    /\ nextId = 0
    /\ pc = <<"load">> /\ call = <<>> /\ loc = <<>> /\ ret = <<>>

\* rows.Next() / rows.Scan of getGameState: one more throw in History.
LoadThrow ==
    /\ pc[1] = "load"
    /\ Len(throws) < MaxLog
    /\ \E c \in LogChoices(Config, gamePlayers) :
          throws' = Append(throws, [ID |-> Len(throws) + 1, PlayerID |-> c[1], VisitScore |-> c[2],
                                    DartsThrown |-> MaxDarts, CreatedAt |-> Len(throws) + 1])
    /\ UNCHANGED <<gameRow, gamePlayers, nextId, pc, call, loc, ret, rs, hist>>

\* History is complete; computeScores reaches its loop.
StartLoop ==
    /\ pc[1] = "load"
    /\ pc' = <<"loop">>
    /\ UNCHANGED <<dbVars, call, loc, ret, rs, hist>>

\* One iteration of the loop over History; a match winner leaves it (break).
LoopStep ==
    /\ pc[1] = "loop"
    /\ hist.n < Len(throws)
    /\ LET t == throws[hist.n + 1]
           st == replayThrow(rs[1], t, Config, gamePlayers)
       IN /\ rs' = Some(st)
          /\ hist' = [n |-> hist.n + 1, last |-> <<t>>,
                      outcome |-> outcomeOf(rs[1], t, Config, gamePlayers),
                      lazy |-> rs[1].matchWinnerID = None /\ Seated(gamePlayers, t.PlayerID)
                                  /\ currentLeg(rs[1].match).WinnerID # None]
          /\ pc' = IF st.matchWinnerID # None THEN <<"done">> ELSE pc
    /\ UNCHANGED <<dbVars, call, loc, ret>>

\* The range over History is exhausted.
LoopEnd ==
    /\ pc[1] = "loop"
    /\ hist.n = Len(throws)
    /\ pc' = <<"done">>
    /\ UNCHANGED <<dbVars, call, loc, ret, rs, hist>>

LogNext == LoadThrow \/ StartLoop \/ LoopStep \/ LoopEnd

SpecLog == LogInit /\ [][LogNext]_vars

\* History has a throw the loop has not visited: LoopStep is enabled.
LoopCanStep == pc[1] = "loop" /\ hist.n < Len(throws)

\* The loop, once entered, is run by one goroutine that nothing suspends:
\* weak fairness of LoopStep, with its enabling condition written out as
\* LoopCanStep, and of LoopEnd.
SpecLogLive ==
    /\ SpecLog
    /\ ([]<>(~LoopCanStep) \/ []<><<LoopStep>>_vars)
    /\ WF_vars(LoopEnd)

\* What the loop has left in match, remaining, Scores and matchWinnerID.
LoopResult == rs[1]

\* What computeScores makes of History h under the loaded configuration.
Reconstructed(h) == replayAll(initReplay(Config, gamePlayers), h, Config, gamePlayers)

(***************************************************************************)
(* The Repository over its database.  A request p runs one method at a     *)
(* time; pc[p] is the SQL statement it is about to send.  Statements of    *)
(* different requests interleave freely: no method but CreateGame opens a  *)
(* transaction.  F is the set of outcomes a statement may have: FALSE      *)
(* (it succeeds) and, where storage may fail, TRUE (it returns an error).  *)
(***************************************************************************)
Procs == {1, 2}

StorageError == "storage error"

\* CreateGame requests: five that pass its checks (one of them without a
\* starting score), then one per check that
\* fails (mode, legs, sets, players) and one the seats' primary key refuses.
CreateRequests ==
    {[Config |-> [Mode |-> " X01 ", StartingScore |-> Some(2), Legs |-> 1, Sets |-> 1, DoubleOut |-> TRUE],
      PlayerIDs |-> <<"A", "B">>],
     [Config |-> [Mode |-> "X01", StartingScore |-> Some(2), Legs |-> 2, Sets |-> 1, DoubleOut |-> FALSE],
      PlayerIDs |-> <<"A", "B">>],
     [Config |-> [Mode |-> "X01", StartingScore |-> Some(2), Legs |-> 1, Sets |-> 2, DoubleOut |-> FALSE],
      PlayerIDs |-> <<"A">>],
     [Config |-> [Mode |-> "Cricket", StartingScore |-> None, Legs |-> 1, Sets |-> 1, DoubleOut |-> FALSE],
      PlayerIDs |-> <<"A", "B">>],
     [Config |-> [Mode |-> "X01", StartingScore |-> None, Legs |-> 1, Sets |-> 1, DoubleOut |-> TRUE],
      PlayerIDs |-> <<"A", "B">>],
     [Config |-> [Mode |-> " ", StartingScore |-> None, Legs |-> 1, Sets |-> 1, DoubleOut |-> TRUE],
      PlayerIDs |-> <<"A">>],
     [Config |-> [Mode |-> "X01", StartingScore |-> None, Legs |-> 0, Sets |-> 1, DoubleOut |-> TRUE],
      PlayerIDs |-> <<"A">>],
     [Config |-> [Mode |-> "X01", StartingScore |-> None, Legs |-> 1, Sets |-> 0, DoubleOut |-> TRUE],
      PlayerIDs |-> <<"A">>],
     [Config |-> [Mode |-> "X01", StartingScore |-> None, Legs |-> 1, Sets |-> 1, DoubleOut |-> TRUE],
      PlayerIDs |-> <<>>],
     [Config |-> [Mode |-> "X01", StartingScore |-> None, Legs |-> 1, Sets |-> 1, DoubleOut |-> TRUE],
      PlayerIDs |-> <<"A", "A">>]}

\* The one-leg double-out match for two, alone.
CreateRequestsSmall ==
    {[Config |-> [Mode |-> "X01", StartingScore |-> Some(2), Legs |-> 1, Sets |-> 1, DoubleOut |-> TRUE],
      PlayerIDs |-> <<"A", "B">>]}

\* AddThrow requests: visits that score, bust and check out from 2, the ends
\* of both domains, an unseated player, and one request outside each domain.
ThrowRequests ==
    {[PlayerID |-> p, VisitScore |-> v, DartsThrown |-> MaxDarts] : p \in {"A", "B"}, v \in {1, 2}}
    \cup {[PlayerID |-> "A", VisitScore |-> MinVisit, DartsThrown |-> MinDarts],
          [PlayerID |-> "A", VisitScore |-> MaxVisit, DartsThrown |-> MaxDarts],
          [PlayerID |-> "Z", VisitScore |-> 2, DartsThrown |-> MaxDarts],
          [PlayerID |-> " A ", VisitScore |-> 2, DartsThrown |-> MaxDarts],
          [PlayerID |-> " ", VisitScore |-> 2, DartsThrown |-> MinDarts],
          [PlayerID |-> "A", VisitScore |-> 2, DartsThrown |-> MinDarts - 1],
          [PlayerID |-> "A", VisitScore |-> 2, DartsThrown |-> MaxDarts + 1],
          [PlayerID |-> "A", VisitScore |-> MinVisit - 1, DartsThrown |-> MinDarts],
          [PlayerID |-> "A", VisitScore |-> MaxVisit + 1, DartsThrown |-> MinDarts]}

ThrowRequestsSmall ==
    {[PlayerID |-> "A", VisitScore |-> 1, DartsThrown |-> MaxDarts],
     [PlayerID |-> "A", VisitScore |-> 2, DartsThrown |-> MaxDarts],
     [PlayerID |-> "B", VisitScore |-> 2, DartsThrown |-> MaxDarts]}

NoLoc == [row |-> None, lastThrowID |-> 0, newStatus |-> "", winnerID |-> None,
          stmts |-> 0, before |-> None, prev |-> None]

\* The locals of request p as it starts a method now; before and stmts record
\* the database at the call and the number of statements sent since, prev the
\* database as it was before the call p has just returned from, when that
\* call was an AddThrow that succeeded.
EnterLoc(p) ==
    [NoLoc EXCEPT !.before = Some([gameRow |-> gameRow, throws |-> throws]),
                  !.prev = IF call[p].op = "AddThrow" /\ ret[p] = "ok"
                           THEN loc[p].before ELSE None]

Init ==
    /\ gameRow = None
    /\ gamePlayers = <<>>
    /\ throws = <<>>
    /\ nextId = 0
    /\ pc = [p \in Procs |-> "idle"]
    /\ call = [p \in Procs |-> [op |-> "none"]]
    /\ loc = [p \in Procs |-> NoLoc]
    /\ ret = [p \in Procs |-> ""]
    /\ rs = None
    /\ hist = [n |-> 0, last |-> <<>>, outcome |-> "none", lazy |-> FALSE]

\* The method returns r ("ok", or the error's text).
Return(p, r) ==
    /\ pc' = [pc EXCEPT ![p] = "idle"]
    /\ ret' = [ret EXCEPT ![p] = r]

Goto(p, label) ==
    /\ pc' = [pc EXCEPT ![p] = label]
    /\ ret' = ret

Sent(p) == [loc[p] EXCEPT !.stmts = loc[p].stmts + 1]

HasDuplicates(ids) == \E i, j \in DOMAIN ids : i # j /\ ids[i] = ids[j]

\* validateCreate without the check of legs.
validateCreate_NoLegsCheck(req) ==
    IF Len(req.PlayerIDs) = 0 THEN "at least one player is required"
    ELSE IF TrimSpace(req.Config.Mode) = "" THEN "mode is required"
    ELSE IF req.Config.Sets <= 0 THEN "sets must be > 0"
    ELSE ""

\* CreateGame's checks of the request: "" when it passes.
validateCreate(req) ==
    IF Len(req.PlayerIDs) = 0 THEN "at least one player is required"
    ELSE IF TrimSpace(req.Config.Mode) = "" THEN "mode is required"
    ELSE IF req.Config.Legs <= 0 THEN "legs must be > 0"
    ELSE IF req.Config.Sets <= 0 THEN "sets must be > 0"
    ELSE ""

\* CreateGame up to the commit of its transaction (the games row and one
\* game_players row per seat, or nothing).
CreateGame(p, F, CR) ==
    /\ pc[p] = "idle"
    /\ gameRow = None
    /\ \A q \in Procs : call[q].op = "CreateGame" => pc[q] = "idle"
    /\ \E req \in CR, fail \in F :
          /\ call' = [call EXCEPT ![p] = [op |-> "CreateGame", req |-> req]]
          /\ IF validateCreate(req) # ""
             THEN /\ Return(p, validateCreate(req))
                  /\ loc' = [loc EXCEPT ![p] = EnterLoc(p)]
                  /\ UNCHANGED dbVars
             ELSE IF fail \/ HasDuplicates(req.PlayerIDs)
             THEN /\ Return(p, StorageError)
                  /\ loc' = [loc EXCEPT ![p] = [EnterLoc(p) EXCEPT !.stmts = 1]]
                  /\ UNCHANGED dbVars
             ELSE /\ gameRow' = Some([Config |-> [req.Config EXCEPT !.Mode = TrimSpace(req.Config.Mode)],
                                      Status |-> "pending", WinnerID |-> None])
                  /\ gamePlayers' = req.PlayerIDs
                  /\ Goto(p, "row2")
                  /\ loc' = [loc EXCEPT ![p] = [EnterLoc(p) EXCEPT !.stmts = 1 + Len(req.PlayerIDs)]]
                  /\ UNCHANGED <<throws, nextId>>
    /\ UNCHANGED replayVars

GetGame(p) ==
    /\ pc[p] = "idle"
    /\ call' = [call EXCEPT ![p] = [op |-> "GetGame"]]
    /\ loc' = [loc EXCEPT ![p] = EnterLoc(p)]
    /\ Goto(p, "row2")
    /\ UNCHANGED <<dbVars, replayVars>>

\* validateRequest without the upper end of the visit-score domain.
validateRequest_NoUpperVisit(req) ==
    IF TrimSpace(req.PlayerID) = "" THEN "playerId is required"
    ELSE IF req.DartsThrown < MinDarts \/ req.DartsThrown > MaxDarts
         THEN "dartsThrown must be between 1 and 3"
    ELSE IF req.VisitScore < MinVisit
         THEN "visitScore must be between 0 and 180"
    ELSE ""

\* AddThrow's checks of the request, made before any statement: "" when it passes.
validateRequest(req) ==
    IF TrimSpace(req.PlayerID) = "" THEN "playerId is required"
    ELSE IF req.DartsThrown < MinDarts \/ req.DartsThrown > MaxDarts
         THEN "dartsThrown must be between 1 and 3"
    ELSE IF req.VisitScore < MinVisit \/ req.VisitScore > MaxVisit
         THEN "visitScore must be between 0 and 180"
    ELSE ""

\* Requests that have entered AddThrow and not yet sent their INSERT.
Inserting == {q \in Procs : pc[q] \in {"row1", "hist1", "insert"}}

AddThrow(p, TR, M) ==
    /\ pc[p] = "idle"
    /\ nextId + Cardinality(Inserting) < M
    /\ \E req \in TR :
          /\ call' = [call EXCEPT ![p] = [op |-> "AddThrow",
                                          req |-> [req EXCEPT !.PlayerID = TrimSpace(req.PlayerID)]]]
          /\ IF validateRequest(req) # ""
             THEN Return(p, validateRequest(req))
             ELSE Goto(p, "row1")
    /\ loc' = [loc EXCEPT ![p] = EnterLoc(p)]
    /\ UNCHANGED <<dbVars, replayVars>>

UndoLastThrow(p) ==
    /\ pc[p] = "idle"
    /\ call' = [call EXCEPT ![p] = [op |-> "UndoLastThrow"]]
    /\ loc' = [loc EXCEPT ![p] = EnterLoc(p)]
    /\ Goto(p, "select")
    /\ UNCHANGED <<dbVars, replayVars>>

\* getGameState, first part: the games row (and, the row found, the seats).
ReadRow(p, F) ==
    /\ pc[p] \in {"row1", "row2"}
    /\ \E fail \in F :
          IF fail
          THEN Return(p, StorageError) /\ loc' = [loc EXCEPT ![p] = Sent(p)]
          ELSE IF gameRow = None
          THEN Return(p, "game not found") /\ loc' = [loc EXCEPT ![p] = Sent(p)]
          ELSE /\ Goto(p, IF pc[p] = "row1" THEN "hist1" ELSE "hist2")
               /\ loc' = [loc EXCEPT ![p] = [Sent(p) EXCEPT !.row = gameRow, !.stmts = loc[p].stmts + 2]]
    /\ UNCHANGED <<dbVars, call, replayVars>>

\* validateThrow without the turn-order check.
validateThrow_NoTurnCheck(state, req) ==
    IF state.Status = "finished" THEN "game is already finished"
    ELSE IF ~Seated(state.Players, req.PlayerID) THEN "player is not part of this game"
    ELSE ""

\* validateThrow refusing a visit that replay would count as a bust.
validateThrow_RejectBust(state, req) ==
    IF state.Status = "finished" THEN "game is already finished"
    ELSE IF ~Seated(state.Players, req.PlayerID) THEN "player is not part of this game"
    ELSE IF state.CurrentPlayerID # "" /\ state.CurrentPlayerID # req.PlayerID
         THEN "not this player's turn"
    ELSE IF /\ state.MatchScore # None
            /\ isBust(state.Scores[playerIndex(state.Players, req.PlayerID) + 1].Remaining[1]
                        - req.VisitScore, state.Config.DoubleOut)
         THEN "bust"
    ELSE ""

\* validateThrow letting any seated player open an empty log.
validateThrow_AnySeatFirst(state, req) ==
    IF state.Status = "finished" THEN "game is already finished"
    ELSE IF ~Seated(state.Players, req.PlayerID) THEN "player is not part of this game"
    ELSE IF Len(state.History) > 0 /\ state.CurrentPlayerID # "" /\ state.CurrentPlayerID # req.PlayerID
         THEN "not this player's turn"
    ELSE ""

\* AddThrow's checks of the loaded state: "" when the throw may be inserted.
validateThrow(state, req) ==
    IF state.Status = "finished" THEN "game is already finished"
    ELSE IF ~Seated(state.Players, req.PlayerID) THEN "player is not part of this game"
    ELSE IF state.CurrentPlayerID # "" /\ state.CurrentPlayerID # req.PlayerID
         THEN "not this player's turn"
    ELSE ""

\* getGameState, second part (the throws, computeScores), as AddThrow calls
\* it before the insert, and AddThrow's checks of the state.
CheckTurn(p, F) ==
    /\ pc[p] = "hist1"
    /\ \E fail \in F :
          IF fail
          THEN Return(p, StorageError)
          ELSE LET stateBefore == getGameState(loc[p].row[1], gamePlayers, throws) IN
               IF validateThrow(stateBefore, call[p].req) # ""
               THEN Return(p, validateThrow(stateBefore, call[p].req))
               ELSE Goto(p, "insert")
    /\ loc' = [loc EXCEPT ![p] = Sent(p)]
    /\ UNCHANGED <<dbVars, call, replayVars>>

\* The row the INSERT adds: id and created_at are fresh and later than all before.
NewThrow(req) ==
    [ID |-> nextId + 1, PlayerID |-> req.PlayerID, VisitScore |-> req.VisitScore,
     DartsThrown |-> req.DartsThrown, CreatedAt |-> nextId + 1]

InsertThrow(p, F) ==
    /\ pc[p] = "insert"
    /\ \E fail \in F :
          IF fail
          THEN Return(p, StorageError) /\ UNCHANGED <<throws, nextId>>
          ELSE /\ throws' = Append(throws, NewThrow(call[p].req))
               /\ nextId' = nextId + 1
               /\ Goto(p, "row2")
    /\ loc' = [loc EXCEPT ![p] = Sent(p)]
    /\ UNCHANGED <<gameRow, gamePlayers, call, replayVars>>

\* SELECT id FROM throws ORDER BY created_at DESC, id DESC LIMIT 1.
selectLastID(rows) == rows[Len(rows)].ID

\* UndoLastThrow: "Find last throw".
SelectLast(p, F) ==
    /\ pc[p] = "select"
    /\ \E fail \in F :
          IF fail
          THEN Return(p, StorageError) /\ loc' = [loc EXCEPT ![p] = Sent(p)]
          ELSE IF throws = <<>>
          THEN Return(p, "no throws to undo") /\ loc' = [loc EXCEPT ![p] = Sent(p)]
          ELSE /\ Goto(p, "delete")
               /\ loc' = [loc EXCEPT ![p] = [Sent(p) EXCEPT !.lastThrowID = selectLastID(throws)]]
    /\ UNCHANGED <<dbVars, call, replayVars>>

\* A DELETE that removes the oldest row, whatever id it is given.
deleteByID_Oldest(rows, id) == Tail(rows)

\* DELETE FROM throws WHERE id = $1: the rows that stay.
deleteByID(rows, id) == SelectSeq(rows, LAMBDA t : t.ID # id)

\* UndoLastThrow: "Delete it".
DeleteThrow(p, F) ==
    /\ pc[p] = "delete"
    /\ \E fail \in F :
          IF fail
          THEN Return(p, StorageError) /\ UNCHANGED throws
          ELSE /\ throws' = deleteByID(throws, loc[p].lastThrowID)
               /\ Goto(p, "row2")
    /\ loc' = [loc EXCEPT ![p] = Sent(p)]
    /\ UNCHANGED <<gameRow, gamePlayers, nextId, call, replayVars>>

\* getGameState, second part, as every method calls it last, and
\* syncGameStatus up to its UPDATE.
LoadAndSync(p, F) ==
    /\ pc[p] = "hist2"
    /\ \E fail \in F :
          IF fail
          THEN Return(p, StorageError) /\ loc' = [loc EXCEPT ![p] = Sent(p)]
          ELSE LET state == getGameState(loc[p].row[1], gamePlayers, throws) IN
               \E winnerID \in syncWinners(state) :
                  IF syncUnchanged(state, winnerID)
                  THEN Return(p, "ok") /\ loc' = [loc EXCEPT ![p] = Sent(p)]
                  ELSE /\ Goto(p, "update")
                       /\ loc' = [loc EXCEPT ![p] = [Sent(p) EXCEPT
                                     !.newStatus = newStatusOf(winnerID, state.History),
                                     !.winnerID = winnerID]]
    /\ UNCHANGED <<dbVars, call, replayVars>>

\* syncGameStatus: UPDATE games SET status, winner_id.
UpdateStatus(p, F) ==
    /\ pc[p] = "update"
    /\ \E fail \in F :
          IF fail
          THEN Return(p, StorageError) /\ UNCHANGED gameRow
          ELSE /\ gameRow' = IF gameRow = None THEN gameRow
                             ELSE Some([gameRow[1] EXCEPT !.Status = loc[p].newStatus,
                                                          !.WinnerID = loc[p].winnerID])
               /\ Return(p, "ok")
    /\ loc' = [loc EXCEPT ![p] = Sent(p)]
    /\ UNCHANGED <<gamePlayers, throws, nextId, call, replayVars>>

\* One step of request p, its statements failing as F allows, its requests
\* drawn from CR (CreateGame) and TR (AddThrow), at most M throws inserted.
Step(p, F, CR, TR, M) ==
    \/ CreateGame(p, F, CR)
    \/ GetGame(p)
    \/ AddThrow(p, TR, M)
    \/ UndoLastThrow(p)
    \/ ReadRow(p, F)
    \/ CheckTurn(p, F)
    \/ InsertThrow(p, F)
    \/ SelectLast(p, F)
    \/ DeleteThrow(p, F)
    \/ LoadAndSync(p, F)
    \/ UpdateStatus(p, F)

\* Serialized requests, storage never failing.
Next == Step(1, {FALSE}, CreateRequests, ThrowRequests, MaxInserts)

Spec == Init /\ [][Next]_vars

\* Serialized requests, any statement may fail.
NextFaulty == Step(1, BOOLEAN, CreateRequests, ThrowRequests, MaxInserts)

SpecFaulty == Init /\ [][NextFaulty]_vars

\* Concurrent requests, storage never failing.
NextConcurrent == \E p \in Procs : Step(p, {FALSE}, CreateRequestsSmall, ThrowRequestsSmall, MaxRacing)

SpecConcurrent == Init /\ [][NextConcurrent]_vars

(***************************************************************************)
(* Properties of the replay.                                               *)
(***************************************************************************)
\* Seat (1..N) of a seated player, and the seat that follows it.
SeatOf(pid) == CHOOSE i \in DOMAIN gamePlayers : gamePlayers[i] = pid

SeatAfter(pid) == gamePlayers[IF SeatOf(pid) = Len(gamePlayers) THEN 1 ELSE SeatOf(pid) + 1]

InRange(x, start) == 0 <= x /\ x <= start

\* C1: in an X01 replay with starting score >= 0, after every prefix of the
\* log each player's remaining score, in every leg of the tree and in Scores,
\* lies in [0, starting score].
C1_RemainingInRange ==
    (IsX01 /\ startOf(Config) >= 0) =>
        /\ \A s \in DOMAIN rs[1].match.Sets : \A l \in DOMAIN rs[1].match.Sets[s].Legs :
              \A p \in Range(gamePlayers) :
                 /\ p \in DOMAIN rs[1].match.Sets[s].Legs[l].ScoresByPlayer
                 /\ InRange(rs[1].match.Sets[s].Legs[l].ScoresByPlayer[p], startOf(Config))
        /\ \A i \in DOMAIN rs[1].scores :
              /\ rs[1].scores[i].Remaining # None
              /\ InRange(rs[1].scores[i].Remaining[1], startOf(Config))
              /\ InRange(rs[1].remaining[i], startOf(Config))

\* C1 witness: a visit larger than the thrower's remaining has just been
\* replayed as a bust in a match that already has a sealed leg.
C1_Witness ==
    /\ IsX01 /\ startOf(Config) > 0
    /\ hist.outcome = "bust"
    /\ hist.last[1].VisitScore > rs[1].remaining[SeatOf(hist.last[1].PlayerID)]
    /\ \E l \in DOMAIN rs[1].match.Sets[1].Legs : rs[1].match.Sets[1].Legs[l].WinnerID # None

\* The candidate of the claim: the thrower's remaining in the current leg
\* minus the visit score.
ClaimCand(t) == currentLeg(rs[1].match).ScoresByPlayer[t.PlayerID] - t.VisitScore

\* The replay step consumes a visit of a seated thrower whose candidate is
\* negative, or is 1 under double-out.
BustVisit ==
    /\ IsX01 /\ hist'.n = hist.n + 1
    /\ Seated(gamePlayers, hist'.last[1].PlayerID)
    /\ \/ ClaimCand(hist'.last[1]) < 0
       \/ Config.DoubleOut /\ ClaimCand(hist'.last[1]) = 1

\* C2: a bust leaves every player's remaining in the leg (and the whole tree
\* and Scores) unchanged, seals nothing, and the current player after it is
\* the seat following the thrower.
C2_BustFrame ==
    [][BustVisit =>
          /\ rs'[1].match = rs[1].match
          /\ rs'[1].scores = rs[1].scores
          /\ rs'[1].remaining = rs[1].remaining
          /\ rs'[1].matchWinnerID = rs[1].matchWinnerID
          /\ ReplayCurrentPlayerID' = SeatAfter(hist'.last[1].PlayerID)]_vars

\* C2 witness: a double-out bust (candidate exactly 1) by the last seat of a
\* match with several seats has been replayed, the match being still open.
C2_Witness ==
    /\ IsX01 /\ Config.DoubleOut /\ Len(gamePlayers) >= 2
    /\ hist.outcome = "bust"
    /\ hist.last[1].PlayerID = gamePlayers[Len(gamePlayers)]
    /\ currentLeg(rs[1].match).ScoresByPlayer[hist.last[1].PlayerID] - hist.last[1].VisitScore = 1
    /\ ReplayCurrentPlayerID = gamePlayers[1]

\* C3: the current player is seat 1 on an empty log, and otherwise the seat
\* after the (seated) player of the last throw, wrapping around, in every
\* mode and whatever the last throw did.
C3_TurnOrder ==
    /\ hist.n = 0 => ReplayCurrentPlayerID = gamePlayers[1]
    /\ (hist.n > 0 /\ Seated(gamePlayers, hist.last[1].PlayerID)) =>
           ReplayCurrentPlayerID = SeatAfter(hist.last[1].PlayerID)

\* C3 witness: the last seat of a three-seat match has just sealed a leg, and
\* the turn wraps to seat 1.
C3_Witness ==
    /\ Len(gamePlayers) = 3 /\ IsX01
    /\ hist.outcome = "checkout"
    /\ hist.last[1].PlayerID = gamePlayers[3]
    /\ ReplayCurrentPlayerID = gamePlayers[1]

\* The replay consumes one more throw of the log.
ReplayStep == hist'.n = hist.n + 1

\* The players of a leg whose remaining score is 0.
ZeroIn(leg) == {p \in DOMAIN leg.ScoresByPlayer : leg.ScoresByPlayer[p] = 0}

\* A leg has a winner exactly when one player's remaining in it is 0, and that
\* player is its winner.
LegWinnerIsTheZero ==
    \A s \in DOMAIN rs[1].match.Sets : \A l \in DOMAIN rs[1].match.Sets[s].Legs :
        LET leg == rs[1].match.Sets[s].Legs[l] IN
        /\ leg.WinnerID # None <=> Cardinality(ZeroIn(leg)) = 1
        /\ leg.WinnerID = None => ZeroIn(leg) = {}
        /\ leg.WinnerID # None => ZeroIn(leg) = {leg.WinnerID[1]}

\* A leg sealed before the step is not touched by it; a leg sealed by the step
\* is sealed by the step's throw, which took its thrower from above 0 to 0.
LegSealedByItsCheckout ==
    ReplayStep =>
        \A s \in DOMAIN rs[1].match.Sets : \A l \in DOMAIN rs[1].match.Sets[s].Legs :
            LET leg == rs[1].match.Sets[s].Legs[l]
                after == rs'[1].match.Sets[s].Legs[l]
                t == hist'.last[1]
            IN /\ leg.WinnerID # None => after = leg
               /\ (leg.WinnerID = None /\ after.WinnerID # None) =>
                     /\ hist'.outcome = "checkout"
                     /\ after.WinnerID = Some(t.PlayerID)
                     /\ after.FinishedAt = Some(t.CreatedAt)
                     /\ leg.ScoresByPlayer[t.PlayerID] > 0
                     /\ after.ScoresByPlayer[t.PlayerID] = 0
                     /\ leg.ScoresByPlayer[t.PlayerID] - t.VisitScore = 0

\* C11: in the tree of an X01 match with starting score > 0 a leg has a winner
\* iff exactly one player's remaining in that leg is 0, that player is the
\* winner, and the leg was sealed by the very throw that brought the player to
\* 0; no later throw is applied to a sealed leg.
C11_LegSealedAtZero ==
    /\ []((IsX01 /\ startOf(Config) > 0) => LegWinnerIsTheZero)
    /\ [][(IsX01 /\ startOf(Config) > 0) => LegSealedByItsCheckout]_vars

\* C11 witness: with starting score > 0 and two seats or more, the first leg
\* is sealed and a later throw has been scored in the leg after it.
C11_Witness ==
    /\ IsX01 /\ startOf(Config) > 0 /\ Len(gamePlayers) >= 2
    /\ rs[1].match.Sets[1].Legs[1].WinnerID # None
    /\ Cardinality(ZeroIn(rs[1].match.Sets[1].Legs[1])) = 1
    /\ Len(rs[1].match.Sets[1].Legs) >= 2
    /\ hist.outcome = "scored"

\* Legs of a set won by player p.
LegsWonBy(set, p) == Cardinality({l \in DOMAIN set.Legs : set.Legs[l].WinnerID = Some(p)})

\* Sets of a match won by player p.
SetsWonBy(match, p) == Cardinality({s \in DOMAIN match.Sets : match.Sets[s].WinnerID = Some(p)})

\* C12: a set has a winner iff some player's count of won legs within it has
\* reached legs-to-win; that player is the winner, with exactly legs-to-win
\* legs, and every other player has strictly fewer.
C12_SetSealedAtLegsToWin ==
    IsX01 =>
        \A s \in DOMAIN rs[1].match.Sets :
            LET set == rs[1].match.Sets[s]
                reached == {p \in Range(gamePlayers) : LegsWonBy(set, p) >= set.LegsToWin}
            IN /\ set.WinnerID # None <=> reached # {}
               /\ set.WinnerID # None =>
                     /\ set.WinnerID[1] \in reached
                     /\ LegsWonBy(set, set.WinnerID[1]) = set.LegsToWin
                     /\ \A p \in Range(gamePlayers) \ {set.WinnerID[1]} :
                           LegsWonBy(set, p) < set.LegsToWin

\* C12 witness: a set of legs-to-win 2 is sealed, its loser having won a leg.
C12_Witness ==
    /\ IsX01
    /\ \E s \in DOMAIN rs[1].match.Sets :
          LET set == rs[1].match.Sets[s] IN
          /\ set.LegsToWin = 2 /\ set.WinnerID # None
          /\ \E p \in Range(gamePlayers) : p # set.WinnerID[1] /\ LegsWonBy(set, p) = 1

LastSet(match) == match.Sets[Len(match.Sets)]

\* A match winner is reported iff some player's won sets have reached
\* sets-to-win; that player is the one reported, and the winner of the last set.
WinnerHasTheSets ==
    LET match == rs[1].match
        reached == {p \in Range(gamePlayers) : SetsWonBy(match, p) >= match.SetsToWin}
    IN /\ ReplayResult.WinnerID # None <=> reached # {}
       /\ ReplayResult.WinnerID # None =>
             /\ reached = {ReplayResult.WinnerID[1]}
             /\ LastSet(match).WinnerID = ReplayResult.WinnerID
             /\ LastSet(match).Legs[Len(LastSet(match).Legs)].WinnerID = ReplayResult.WinnerID

\* The step that makes a match winner is a checkout by that winner, sealing
\* the last set, which was open before it.
WinnerThrewLastCheckout ==
    (ReplayStep /\ rs[1].matchWinnerID = None /\ rs'[1].matchWinnerID # None) =>
        /\ hist'.outcome = "checkout"
        /\ rs'[1].matchWinnerID = Some(hist'.last[1].PlayerID)
        /\ Len(rs'[1].match.Sets) = Len(rs[1].match.Sets)
        /\ LastSet(rs[1].match).WinnerID = None
        /\ LastSet(rs'[1].match).WinnerID = Some(hist'.last[1].PlayerID)
        /\ LastSet(rs'[1].match).FinishedAt = Some(hist'.last[1].CreatedAt)

\* C13: the reconstructor reports a match winner iff some player's count of
\* won sets has reached sets-to-win; that player is the reported winner, and
\* is the player who threw the checkout that sealed the last set.
C13_MatchWinner ==
    /\ [](IsX01 => WinnerHasTheSets)
    /\ [][IsX01 => WinnerThrewLastCheckout]_vars

\* C13 witness: a match of sets-to-win 2 has a winner, another player having
\* won a set.
C13_Witness ==
    /\ IsX01 /\ rs[1].match.SetsToWin = 2
    /\ rs[1].matchWinnerID # None
    /\ hist.outcome = "checkout"
    /\ \E p \in Range(gamePlayers) :
          p # rs[1].matchWinnerID[1] /\ SetsWonBy(rs[1].match, p) = 1

\* C14: for any log the tree has at most one unsealed set and at most one
\* unsealed leg in each set; an unsealed set is the last set, an unsealed leg
\* the last leg of the last set; every earlier leg and set is sealed.
C14_OneOpenLeg ==
    IsX01 =>
        LET match == rs[1].match
            openSets == {s \in DOMAIN match.Sets : match.Sets[s].WinnerID = None}
            openLegs(s) == {l \in DOMAIN match.Sets[s].Legs : match.Sets[s].Legs[l].WinnerID = None}
        IN /\ Cardinality(openSets) <= 1
           /\ openSets \subseteq {Len(match.Sets)}
           /\ \A s \in DOMAIN match.Sets :
                 /\ Cardinality(openLegs(s)) <= 1
                 /\ openLegs(s) \subseteq {Len(match.Sets[s].Legs)}
                 /\ s < Len(match.Sets) => openLegs(s) = {}

\* C14 witness: after a throw by an unseated player the tree has a sealed set
\* followed by an open set whose first leg is sealed and second leg open.
C14_Witness ==
    /\ IsX01 /\ hist.n > 0 /\ hist.last[1].PlayerID = "Z"
    /\ Len(rs[1].match.Sets) = 2
    /\ rs[1].match.Sets[1].WinnerID # None
    /\ rs[1].match.Sets[2].WinnerID = None
    /\ Len(rs[1].match.Sets[2].Legs) = 2
    /\ rs[1].match.Sets[2].Legs[1].WinnerID # None
    /\ rs[1].match.Sets[2].Legs[2].WinnerID = None

\* Leg leg is fresh: unsealed, every seated player at the starting score.
FreshLeg(leg) ==
    /\ leg.WinnerID = None /\ leg.FinishedAt = None
    /\ leg.StartingScore = startOf(Config)
    /\ leg.ScoresByPlayer = [p \in Range(gamePlayers) |-> startOf(Config)]

\* The step replays a checkout: what it does to the tree, the pointer and Scores.
CheckoutOpensNext ==
    (IsX01 /\ ReplayStep /\ hist'.outcome = "checkout") =>
        LET m == rs[1].match
            n == rs'[1].match
            si == m.CurrentSetIndex + 1
            li == m.CurrentLegIndex + 1
        IN /\ n.Sets[si].Legs[li].WinnerID = Some(hist'.last[1].PlayerID)
           /\ IF rs'[1].matchWinnerID # None
              THEN /\ Len(n.Sets) = Len(m.Sets)
                   /\ \A s \in DOMAIN m.Sets : Len(n.Sets[s].Legs) = Len(m.Sets[s].Legs)
                   /\ n.CurrentSetIndex = m.CurrentSetIndex
                   /\ n.CurrentLegIndex = m.CurrentLegIndex
              ELSE /\ IF n.Sets[si].WinnerID = None
                      THEN /\ Len(n.Sets) = Len(m.Sets)
                           /\ Len(n.Sets[si].Legs) = Len(m.Sets[si].Legs) + 1
                           /\ n.CurrentSetIndex = m.CurrentSetIndex
                           /\ n.CurrentLegIndex = m.CurrentLegIndex + 1
                           /\ currentLeg(n).LegNumber = m.Sets[si].Legs[li].LegNumber + 1
                      ELSE /\ Len(n.Sets) = Len(m.Sets) + 1
                           /\ Len(n.Sets[si].Legs) = Len(m.Sets[si].Legs)
                           /\ n.CurrentSetIndex = m.CurrentSetIndex + 1
                           /\ n.CurrentLegIndex = 0
                           /\ n.Sets[si + 1].SetNumber = m.Sets[si].SetNumber + 1
                           /\ n.Sets[si + 1].WinnerID = None
                           /\ Len(n.Sets[si + 1].Legs) = 1
                           /\ currentLeg(n).LegNumber = 1
                   /\ \A s \in DOMAIN m.Sets : s # si => n.Sets[s] = m.Sets[s]
                   /\ FreshLeg(currentLeg(n))
                   /\ \A i \in DOMAIN gamePlayers :
                         /\ rs'[1].scores[i].Remaining = Some(startOf(Config))
                         /\ rs'[1].remaining[i] = startOf(Config)

\* C15: a checkout that seals a leg without sealing the match opens, in the
\* same replay step, the next leg (numbered previous+1, same set) or, the set
\* being sealed, the next set (numbered previous+1) with a fresh leg 1; every
\* player's remaining is reset to the starting score and the current pointer
\* addresses the new leg.  A checkout that seals the match opens nothing.
C15_CheckoutOpensNext == [][CheckoutOpensNext]_vars

\* C15 witness: a checkout has sealed a set without sealing the match, and the
\* pointer addresses leg 1 of a new, later set.
C15_Witness ==
    /\ IsX01 /\ hist.outcome = "checkout" /\ rs[1].matchWinnerID = None
    /\ Len(gamePlayers) >= 2
    /\ rs[1].match.CurrentSetIndex >= 1
    /\ rs[1].match.CurrentLegIndex = 0
    /\ rs[1].match.Sets[rs[1].match.CurrentSetIndex].WinnerID = Some(hist.last[1].PlayerID)

\* C17: reconstruction is deterministic: the one step of it that ranges over a
\* map, the choice of the winner in syncGameStatus, has a single outcome for
\* every replayed log, so status and winner are functions of the log.
C17_Deterministic ==
    \A w1, w2 \in syncWinners(ReplayResult) :
        /\ w1 = w2
        /\ newStatusOf(w1, hist.last) = newStatusOf(w2, hist.last)
        /\ IsX01 => w1 = ReplayResult.WinnerID

\* C17 witness: the won-sets map has two keys and a winner is chosen from it.
C17_Witness ==
    /\ IsX01
    /\ Cardinality(DOMAIN computeSetsWon(rs[1].match)) = 2
    /\ syncWinners(ReplayResult) # {None}

\* C22: for a match whose mode is not "X01" no remaining score is derived for
\* any player and there is no match tree, while the current player is seat 1
\* on an empty log and else the seat after the player of the last throw.
\* (Outside X01 computeScores reads of History its length and last element.)
C22_NonX01NoScores ==
    ~IsX01 =>
        LET state == getGameState(gameRow[1], gamePlayers, hist.last) IN
        /\ rs = None
        /\ state.MatchScore = None
        /\ Len(state.Scores) = Len(gamePlayers)
        /\ \A i \in DOMAIN state.Scores :
              /\ state.Scores[i].PlayerID = gamePlayers[i]
              /\ state.Scores[i].Remaining = None
        /\ hist.n = 0 => state.CurrentPlayerID = gamePlayers[1]
        /\ (hist.n > 0 /\ Seated(gamePlayers, hist.last[1].PlayerID)) =>
               state.CurrentPlayerID = SeatAfter(hist.last[1].PlayerID)

\* C22 witness: in a match of another mode the last seat of three has thrown
\* a visit that would check out in X01, and the turn is back at seat 1.
C22_Witness ==
    /\ ~IsX01 /\ Len(gamePlayers) = 3 /\ hist.n >= 3
    /\ hist.last[1].PlayerID = gamePlayers[3]
    /\ getGameState(gameRow[1], gamePlayers, hist.last).CurrentPlayerID = gamePlayers[1]
    /\ getGameState(gameRow[1], gamePlayers, hist.last).Scores[3].Remaining = None

\* C23: the replay of an empty log of an X01 match yields one set, number 1,
\* with one unsealed leg, number 1, in which every seated player's remaining is
\* the configured starting score (501 when absent), set and leg index 0, no
\* winner, status "pending" and seat 1 as current player.
C23_EmptyLog ==
    (IsX01 /\ hist.n = 0) =>
        LET state == getGameState(gameRow[1], gamePlayers, <<>>)
            start == IF Config.StartingScore = None THEN 501 ELSE Config.StartingScore[1]
            match == state.MatchScore[1]
        IN /\ state.MatchScore = Some(rs[1].match)
           /\ Len(match.Sets) = 1
           /\ match.Sets[1].SetNumber = 1 /\ match.Sets[1].WinnerID = None
           /\ Len(match.Sets[1].Legs) = 1
           /\ match.Sets[1].Legs[1].LegNumber = 1 /\ match.Sets[1].Legs[1].WinnerID = None
           /\ match.Sets[1].Legs[1].ScoresByPlayer = [p \in Range(gamePlayers) |-> start]
           /\ match.CurrentSetIndex = 0 /\ match.CurrentLegIndex = 0
           /\ \A i \in DOMAIN gamePlayers : state.Scores[i].Remaining = Some(start)
           /\ state.WinnerID = None
           /\ \A w \in syncWinners(state) : w = None /\ newStatusOf(w, <<>>) = "pending"
           /\ state.CurrentPlayerID = gamePlayers[1]

\* C23 witness: the empty log of a match without a starting score, both
\* players at 501.
C23_Witness ==
    /\ IsX01 /\ hist.n = 0 /\ Config.StartingScore = None
    /\ Len(gamePlayers) = 2
    /\ \A p \in Range(gamePlayers) : rs[1].match.Sets[1].Legs[1].ScoresByPlayer[p] = 501

\* The step replays a visit that is accepted: what it does to the leg the
\* pointer addresses and to the sealed legs and sets.
AcceptedVisitFrame ==
    (IsX01 /\ ReplayStep /\ hist'.outcome \in {"scored", "checkout"}) =>
        LET m == rs[1].match
            n == rs'[1].match
            si == m.CurrentSetIndex + 1
            li == m.CurrentLegIndex + 1
            t == hist'.last[1]
            leg == m.Sets[si].Legs[li]
            after == n.Sets[si].Legs[li]
        IN /\ after.ScoresByPlayer[t.PlayerID] = leg.ScoresByPlayer[t.PlayerID] - t.VisitScore
           /\ \A p \in Range(gamePlayers) \ {t.PlayerID} :
                 after.ScoresByPlayer[p] = leg.ScoresByPlayer[p]
           /\ \A s \in DOMAIN m.Sets :
                 /\ m.Sets[s].WinnerID # None => n.Sets[s] = m.Sets[s]
                 /\ \A l \in DOMAIN m.Sets[s].Legs :
                       m.Sets[s].Legs[l].WinnerID # None => n.Sets[s].Legs[l] = m.Sets[s].Legs[l]
           /\ hist'.outcome = "scored" =>
                 /\ rs'[1].scores[SeatOf(t.PlayerID)].LastVisit = Some(t.VisitScore)
                 /\ rs'[1].scores[SeatOf(t.PlayerID)].Remaining = Some(after.ScoresByPlayer[t.PlayerID])

\* C29: an accepted visit sets the thrower's remaining in the current leg to
\* its previous remaining minus the visit score and leaves every other
\* player's remaining in that leg, and every sealed leg and set, unchanged.
C29_AcceptFrame == [][AcceptedVisitFrame]_vars

\* C29 witness: a visit has been scored in a leg where another player is
\* already below the starting score, after a leg was sealed.
C29_Witness ==
    /\ IsX01 /\ hist.outcome = "scored" /\ Len(gamePlayers) >= 2
    /\ rs[1].match.Sets[1].Legs[1].WinnerID # None
    /\ \E p \in Range(gamePlayers) \ {hist.last[1].PlayerID} :
          /\ currentLeg(rs[1].match).ScoresByPlayer[p] < startOf(Config)
          /\ currentLeg(rs[1].match).ScoresByPlayer[p] > 0

\* A throw of player pid, as the loop would meet it next.
NextThrowOf(pid) ==
    [ID |-> hist.n + 1, PlayerID |-> pid, VisitScore |-> 0,
     DartsThrown |-> MaxDarts, CreatedAt |-> hist.n + 1]

\* C34: after the replay of any log of an X01 match with starting score > 0,
\* each player's Remaining in Scores (and the tracked remaining) is that
\* player's entry in ScoresByPlayer of the leg the pointer addresses; and
\* while the match is open the value the loop would use for the next throw of
\* any seated player is that entry, which is not 0: the cur == 0 fallback
\* changes nothing.
C34_CopiesAgree ==
    (IsX01 /\ startOf(Config) > 0) =>
        LET leg == currentLeg(rs[1].match) IN
        /\ DOMAIN leg.ScoresByPlayer = Range(gamePlayers)
        /\ \A i \in DOMAIN gamePlayers :
              /\ rs[1].scores[i].PlayerID = gamePlayers[i]
              /\ rs[1].scores[i].Remaining = Some(leg.ScoresByPlayer[gamePlayers[i]])
              /\ rs[1].remaining[i] = leg.ScoresByPlayer[gamePlayers[i]]
              /\ ReplayResult.Scores[i].Remaining = Some(leg.ScoresByPlayer[gamePlayers[i]])
        /\ rs[1].matchWinnerID = None =>
              \A pid \in Range(gamePlayers) :
                  /\ leg.WinnerID = None
                  /\ leg.ScoresByPlayer[pid] # 0
                  /\ curOf(rs[1], NextThrowOf(pid), startOf(Config), gamePlayers)
                        = leg.ScoresByPlayer[pid]

\* C34 witness: in the second set of a match with starting score 2 a visit
\* has been scored, and the players' remaining scores differ.
C34_Witness ==
    /\ IsX01 /\ startOf(Config) = 2 /\ Len(gamePlayers) >= 2
    /\ rs[1].match.CurrentSetIndex = 1
    /\ hist.outcome = "scored"
    /\ rs[1].matchWinnerID = None
    /\ \E i, j \in DOMAIN gamePlayers : rs[1].scores[i].Remaining # rs[1].scores[j].Remaining

\* C35: in every reconstructed tree CurrentSetIndex is the index of the last
\* set and CurrentLegIndex the index of the last leg of that set; the sets
\* are numbered 1..len(Sets) in order, the legs of each set 1..len(Legs) in
\* order, and every set carries the configured legs-to-win.
C35_PointerAtLast ==
    IsX01 =>
        LET match == ReplayResult.MatchScore[1] IN
        /\ Len(match.Sets) >= 1
        /\ match.CurrentSetIndex = Len(match.Sets) - 1
        /\ match.CurrentLegIndex = Len(match.Sets[Len(match.Sets)].Legs) - 1
        /\ match.SetsToWin = Config.Sets
        /\ \A s \in DOMAIN match.Sets :
              /\ match.Sets[s].SetNumber = s
              /\ match.Sets[s].LegsToWin = Config.Legs
              /\ Len(match.Sets[s].Legs) >= 1
              /\ \A l \in DOMAIN match.Sets[s].Legs : match.Sets[s].Legs[l].LegNumber = l

\* C35 witness: the pointer addresses the second leg of the second set of a
\* match with two legs to win.
C35_Witness ==
    /\ IsX01 /\ Config.Legs = 2
    /\ Len(rs[1].match.Sets) = 2
    /\ Len(rs[1].match.Sets[1].Legs) >= 2
    /\ Len(rs[1].match.Sets[2].Legs) = 2
    /\ rs[1].match.CurrentSetIndex = 1 /\ rs[1].match.CurrentLegIndex = 1

\* The players whose count in the won-sets map reaches sets-to-win.
EnoughSets(match) ==
    {p \in DOMAIN computeSetsWon(match) : computeSetsWon(match)[p] >= match.SetsToWin}

\* C36: for any throw log at most one player has a won-set count >=
\* sets-to-win in the reconstructed tree, and the winner syncGameStatus derives
\* from the tree is the match winner computeScores recorded during the
\* replay: both absent, or the same player.
C36_SyncWinnerIsReplayWinner ==
    IsX01 =>
        /\ Cardinality(EnoughSets(rs[1].match)) <= 1
        /\ syncWinners(ReplayResult) = {rs[1].matchWinnerID}
        /\ rs[1].matchWinnerID = None <=> EnoughSets(rs[1].match) = {}
        /\ rs[1].matchWinnerID # None => EnoughSets(rs[1].match) = {rs[1].matchWinnerID[1]}

\* C36 witness: the second seat has won a match of two sets to win in which
\* the first seat has won a set too.
C36_Witness ==
    /\ IsX01 /\ Len(gamePlayers) >= 2 /\ rs[1].match.SetsToWin = 2
    /\ rs[1].matchWinnerID = Some(gamePlayers[2])
    /\ syncWinners(ReplayResult) = {Some(gamePlayers[2])}
    /\ gamePlayers[1] \in DOMAIN computeSetsWon(rs[1].match)

\* LastVisit of every player, in seat order.
LastVisits(scores) == [i \in DOMAIN scores |-> scores[i].LastVisit]

\* What a replay step does to the last visits: an accepted visit becomes the
\* thrower's, a checkout that opens a new leg clears them all, and a bust, a
\* skipped throw or a throw after the seal leaves them as they are.
LastVisitStep ==
    (IsX01 /\ ReplayStep) =>
        LET t == hist'.last[1]
            before == LastVisits(rs[1].scores)
            after == LastVisits(rs'[1].scores)
        IN CASE hist'.outcome = "scored" ->
                    after = [before EXCEPT ![SeatOf(t.PlayerID)] = Some(t.VisitScore)]
             [] hist'.outcome = "checkout" /\ rs'[1].matchWinnerID = None ->
                    /\ after = [i \in DOMAIN gamePlayers |-> None]
                    /\ currentLeg(rs'[1].match) # currentLeg(rs[1].match)
             [] hist'.outcome = "checkout" /\ rs'[1].matchWinnerID # None ->
                    /\ after = [before EXCEPT ![SeatOf(t.PlayerID)] = Some(t.VisitScore)]
                    /\ rs'[1].matchWinnerID = Some(t.PlayerID)
             [] OTHER -> after = before

\* A player without a last visit stands at the starting score of the current
\* leg, and a last visit is not more than what the player has scored in it.
LastVisitInLeg ==
    IsX01 =>
        \A i \in DOMAIN gamePlayers :
            /\ rs[1].scores[i].LastVisit = None => rs[1].scores[i].Remaining = Some(startOf(Config))
            /\ rs[1].scores[i].LastVisit # None =>
                  rs[1].scores[i].LastVisit[1] <= startOf(Config) - rs[1].scores[i].Remaining[1]

\* C39: a player's LastVisit in Scores is the score of that player's most
\* recent accepted visit in the current leg: a bust leaves it unchanged, the
\* opening of a new leg clears it for every player, and when the match is
\* sealed the winner's LastVisit is the checkout visit.
C39_LastVisit == []LastVisitInLeg /\ [][LastVisitStep]_vars

\* C39 witness: the match is sealed in a leg after the first by a checkout
\* that is the winner's last visit, another player having a last visit in
\* that leg too.
C39_Witness ==
    /\ IsX01 /\ Len(gamePlayers) >= 2
    /\ rs[1].matchWinnerID # None /\ hist.outcome = "checkout"
    /\ rs[1].match.CurrentLegIndex >= 1
    /\ rs[1].scores[SeatOf(rs[1].matchWinnerID[1])].LastVisit = Some(hist.last[1].VisitScore)
    /\ \E i \in DOMAIN gamePlayers :
          /\ gamePlayers[i] # rs[1].matchWinnerID[1]
          /\ rs[1].scores[i].LastVisit # None

\* C40: at the start of the replay of every throw the leg the pointer
\* addresses is unsealed (legs are advanced at the checkout and the replay
\* stops at the match winner), so the branch "leg already finished, advance
\* first" is taken for no throw of any log.
C40_NoLazyAdvance ==
    IsX01 =>
        /\ ~hist.lazy
        /\ rs[1].matchWinnerID = None =>
              /\ currentLeg(rs[1].match).WinnerID = None
              /\ advanceIfFinished(rs[1], startOf(Config), gamePlayers) = rs[1]
        /\ rs[1].matchWinnerID # None =>
              currentLeg(rs[1].match).WinnerID = rs[1].matchWinnerID

\* C40 witness: a throw has been replayed as a bust in the second leg of the
\* second set, both opened at a checkout.
C40_Witness ==
    /\ IsX01 /\ ~hist.lazy
    /\ rs[1].match.CurrentSetIndex = 1 /\ rs[1].match.CurrentLegIndex = 1
    /\ hist.outcome = "bust"
    /\ currentLeg(rs[1].match).WinnerID = None

(***************************************************************************)
(* Properties of the replay of whole logs.                                 *)
(***************************************************************************)
\* The log is A 140, B 100, A 361 in a 501 double-out match of A and B with
\* one leg and one set to win.
IsCheckout361 ==
    /\ Config = [Mode |-> "X01", StartingScore |-> None, Legs |-> 1, Sets |-> 1, DoubleOut |-> TRUE]
    /\ gamePlayers = <<"A", "B">>
    /\ Len(throws) = 3
    /\ throws[1].PlayerID = "A" /\ throws[1].VisitScore = 140
    /\ throws[2].PlayerID = "B" /\ throws[2].VisitScore = 100
    /\ throws[3].PlayerID = "A" /\ throws[3].VisitScore = 361

\* C24: from 501, double-out, players [A, B], one leg, one set, the log
\* A 140, B 100, A 361 reconstructs with the 361 accepted as a checkout: A's
\* remaining is 0, A wins leg 1, set 1 and the match, the status is
\* "finished"; nothing asks for a double as last dart.
C24_Checkout361 ==
    IsCheckout361 =>
        LET state == getGameState(gameRow[1], gamePlayers, throws) IN
        /\ state.Scores[1].Remaining = Some(0)
        /\ state.Scores[1].LastVisit = Some(361)
        /\ state.Scores[2].Remaining = Some(401)
        /\ Len(state.MatchScore[1].Sets) = 1 /\ Len(state.MatchScore[1].Sets[1].Legs) = 1
        /\ state.MatchScore[1].Sets[1].Legs[1].ScoresByPlayer["A"] = 0
        /\ state.MatchScore[1].Sets[1].Legs[1].WinnerID = Some("A")
        /\ state.MatchScore[1].Sets[1].WinnerID = Some("A")
        /\ state.WinnerID = Some("A")
        /\ \A w \in syncWinners(state) : w = Some("A") /\ newStatusOf(w, throws) = "finished"
        /\ pc[1] = "done" =>
              /\ LoopResult.match = state.MatchScore[1]
              /\ LoopResult.scores = state.Scores
              /\ LoopResult.matchWinnerID = Some("A")

\* C24 witness: the loop has run over A 140, B 100, A 361 and left A as winner.
C24_Witness ==
    /\ IsCheckout361 /\ pc[1] = "done" /\ hist.n = 3
    /\ hist.outcome = "checkout"
    /\ LoopResult.matchWinnerID = Some("A")

\* The indices the loop addresses the tree with are those of an existing set
\* and leg, and it has visited no more throws than History holds.
LoopInRange ==
    /\ hist.n <= Len(throws)
    /\ LoopResult.match.CurrentSetIndex + 1 \in DOMAIN LoopResult.match.Sets
    /\ LoopResult.match.CurrentLegIndex + 1
          \in DOMAIN LoopResult.match.Sets[LoopResult.match.CurrentSetIndex + 1].Legs
    /\ DOMAIN LoopResult.remaining = DOMAIN gamePlayers
    /\ DOMAIN LoopResult.scores = DOMAIN gamePlayers

\* An iteration visits the next throw of History, once, and History is not
\* changed while the loop runs.
LoopInOrder ==
    /\ pc[1] = "loop" => throws' = throws
    /\ hist'.n # hist.n =>
          /\ pc[1] = "loop"
          /\ hist'.n = hist.n + 1
          /\ hist'.last = <<throws[hist.n + 1]>>

\* C26: reconstruction terminates for every finite log, visiting each throw
\* at most once in log order, and never addresses a set or leg out of range,
\* whatever the log holds: throws after the sealing throw, throws by players
\* not seated.
C26_ReplayTerminates ==
    /\ []LoopInRange
    /\ [][LoopInOrder]_vars
    /\ (pc[1] = "loop") ~> (pc[1] = "done")

\* C26 witness: the loop is left with throws of History not visited, after a
\* throw by an unseated player.
C26_Witness ==
    /\ pc[1] = "done"
    /\ hist.n < Len(throws)
    /\ \E k \in 1..hist.n : throws[k].PlayerID = "Z"
    /\ LoopResult.matchWinnerID # None

\* The k-th throw of History seals the match.
Seals(k) ==
    /\ Reconstructed(SubSeq(throws, 1, k)).matchWinnerID # None
    /\ Reconstructed(SubSeq(throws, 1, k - 1)).matchWinnerID = None

\* C27: if the log is P followed by S and the last throw of P seals the
\* match, the tree, remaining scores and winner reconstructed from the whole
\* log are those reconstructed from P: the throws of S are not replayed.
C27_StopAtSeal ==
    pc[1] = "done" =>
        \A k \in 1..Len(throws) :
            Seals(k) =>
                /\ LoopResult = Reconstructed(SubSeq(throws, 1, k))
                /\ Reconstructed(throws) = Reconstructed(SubSeq(throws, 1, k))
                /\ hist.n = k

\* C27 witness: two throws or more follow the sealing throw, one of them a
\* visit of a seated player that would check out.
C27_Witness ==
    /\ pc[1] = "done"
    /\ \E k \in 1..Len(throws) :
          /\ Seals(k) /\ k + 2 <= Len(throws)
          /\ \E j \in (k + 1)..Len(throws) :
                throws[j].PlayerID \in Range(gamePlayers) /\ throws[j].VisitScore = 2

\* History without the throws of players not seated.
SeatedOnly(h) == SelectSeq(h, LAMBDA t : Seated(gamePlayers, t.PlayerID))

\* C28: a throw whose player is not seated is skipped: the tree, remaining
\* scores and winner reconstructed from a log are those reconstructed from the
\* log with all such throws removed.
C28_UnseatedSkipped ==
    pc[1] = "done" =>
        /\ LoopResult = Reconstructed(SeatedOnly(throws))
        /\ Reconstructed(throws) = Reconstructed(SeatedOnly(throws))

\* C28 witness: throws by an unseated player open the log and stand between
\* the throws of seated players, one of which seals a leg.
C28_Witness ==
    /\ pc[1] = "done" /\ Len(throws) >= 4
    /\ throws[1].PlayerID = "Z" /\ throws[3].PlayerID = "Z"
    /\ throws[2].PlayerID \in Range(gamePlayers)
    /\ throws[4].PlayerID \in Range(gamePlayers)
    /\ LoopResult.match.Sets[1].Legs[1].WinnerID # None
    /\ hist.n = 4

\* The GameState the flat reconstructor makes of the loaded match.
FlatState ==
    flatComputeScores([Config |-> Config, Status |-> gameRow[1].Status,
                       WinnerID |-> gameRow[1].WinnerID, Players |-> gamePlayers,
                       History |-> throws, Scores |-> <<>>, CurrentPlayerID |-> "",
                       MatchScore |-> None])

\* The k-th throw of History is a checkout for the flat reconstructor: a
\* visit of a seated player, accepted, that leaves 0.
FlatCheckout(k) ==
    /\ Seated(gamePlayers, throws[k].PlayerID)
    /\ flatReplayAll(flatInit(Config, gamePlayers), SubSeq(throws, 1, k - 1), Config, gamePlayers)
          .remaining[playerIndex(gamePlayers, throws[k].PlayerID) + 1] = throws[k].VisitScore

\* No throw of History follows a checkout.
NoThrowAfterCheckout == \A k \in 1..(Len(throws) - 1) : ~Seals(k) /\ ~FlatCheckout(k)

\* C38: for an X01 match with one leg and one set to win and a log in which
\* no throw follows a checkout, the reconstructor with legs and sets and the
\* flat reconstructor agree on every player's remaining score and last visit,
\* on the current player and on the derived status and winner.
C38_FlatAgrees ==
    (/\ IsX01 /\ Config.Legs = 1 /\ Config.Sets = 1
     /\ NoThrowAfterCheckout)
    => LET state == getGameState(gameRow[1], gamePlayers, throws) IN
       /\ \A i \in DOMAIN gamePlayers :
             /\ FlatState.Scores[i].PlayerID = state.Scores[i].PlayerID
             /\ FlatState.Scores[i].Remaining = state.Scores[i].Remaining
             /\ FlatState.Scores[i].LastVisit = state.Scores[i].LastVisit
       /\ FlatState.CurrentPlayerID = state.CurrentPlayerID
       /\ syncWinners(state) = {flatSyncWinner(FlatState)}
       /\ \A w \in syncWinners(state) :
             newStatusOf(w, throws) = newStatusOf(flatSyncWinner(FlatState), throws)

\* C38 with the starting score above 0.
FlatAgreesAboveZero == startOf(Config) > 0 => C38_FlatAgrees

(***************************************************************************)
(* Properties of the Repository's methods.                                 *)
(***************************************************************************)
\* Request p has returned from a call of method op.
Returned(p, op) == pc[p] = "idle" /\ call[p].op = op /\ ret[p] # ""

\* The database as it was when request p made its call.
Before(p) == loc[p].before[1]

Unchanged(p) == throws = Before(p).throws /\ gameRow = Before(p).gameRow

\* The log is h followed by one throw carrying req's fields.
AppendedTo(h, req) ==
    /\ Len(throws) = Len(h) + 1
    /\ SubSeq(throws, 1, Len(h)) = h
    /\ throws[Len(throws)].PlayerID = req.PlayerID
    /\ throws[Len(throws)].VisitScore = req.VisitScore
    /\ throws[Len(throws)].DartsThrown = req.DartsThrown

\* The log is h without its last throw.
LastRemovedFrom(h) == h # <<>> /\ throws = SubSeq(h, 1, Len(h) - 1)

\* The match winner log h reconstructs to, <<>> when there is none.
MatchWinnerOf(h) ==
    IF gameRow # None /\ IsX01 /\ gamePlayers # <<>>
    THEN replayAll(initReplay(Config, gamePlayers), h, Config, gamePlayers).matchWinnerID
    ELSE None

\* The current player by the turn rule: seat 1 on an empty log, else the
\* seat after the player of the last throw.
TurnOf(h) == IF h = <<>> THEN gamePlayers[1] ELSE SeatAfter(h[Len(h)].PlayerID)

\* C4: once the log reconstructs to a sealed match every AddThrow is rejected
\* and the log is unchanged, whatever status is stored.
C4_SealedRejects ==
    \A p \in Procs :
        (Returned(p, "AddThrow") /\ MatchWinnerOf(Before(p).throws) # None) =>
            ret[p] # "ok" /\ throws = Before(p).throws

\* C5: under concurrent AddThrow calls at most one throw is appended per
\* turn: no two consecutive throws by the same seat (N >= 2), no throw after
\* the throw that seals the match.
C5_OneThrowPerTurn ==
    /\ Len(gamePlayers) >= 2 =>
          \A i \in 1..(Len(throws) - 1) : throws[i].PlayerID # throws[i + 1].PlayerID
    /\ \A k \in 1..(Len(throws) - 1) : MatchWinnerOf(SubSeq(throws, 1, k)) = None

\* C6: under concurrency each undo that gets past its DELETE removes exactly
\* one throw, the most recent one of the log at that moment.
C6_UndoRemovesLast ==
    [][\A p \in Procs :
          (pc[p] = "delete" /\ pc'[p] = "row2") =>
              throws # <<>> /\ throws' = SubSeq(throws, 1, Len(throws) - 1)]_vars

\* The stored status and winner are those derived from the stored log.
StoredIsDerived ==
    LET state == getGameState(gameRow[1], gamePlayers, throws) IN
    \E w \in syncWinners(state) :
        gameRow[1].Status = newStatusOf(w, throws) /\ gameRow[1].WinnerID = w

\* C7: every AddThrow and UndoLastThrow is all-or-nothing, also when a
\* storage step fails: on success the log changed by exactly one throw and
\* the stored status and winner are the derived ones; on error the log, the
\* stored status and the stored winner are unchanged.
C7_AllOrNothing ==
    \A p \in Procs :
        /\ Returned(p, "AddThrow") =>
              IF ret[p] = "ok"
              THEN AppendedTo(Before(p).throws, call[p].req) /\ StoredIsDerived
              ELSE Unchanged(p)
        /\ Returned(p, "UndoLastThrow") =>
              IF ret[p] = "ok"
              THEN LastRemovedFrom(Before(p).throws) /\ StoredIsDerived
              ELSE Unchanged(p)

\* The acting player of p's call is not seated, or a current player is
\* defined and is another player.
TurnViolation(p) ==
    \/ ~Seated(gamePlayers, call[p].req.PlayerID)
    \/ /\ Before(p).gameRow # None
       /\ TurnOf(Before(p).throws) # call[p].req.PlayerID

\* C8: AddThrow by a player who is not seated, or who is not the current
\* player, is rejected, appends nothing and changes no stored state.
C8_TurnViolationRejected ==
    \A p \in Procs :
        (Returned(p, "AddThrow") /\ TurnViolation(p)) => ret[p] # "ok" /\ Unchanged(p)

\* C8 witness: a seated player's throw has been refused as out of turn on a
\* match that already has throws.
C8_Witness ==
    /\ Returned(1, "AddThrow")
    /\ ret[1] = "not this player's turn"
    /\ throws # <<>>
    /\ TurnViolation(1)

InDomain(req) ==
    /\ 1 <= req.DartsThrown /\ req.DartsThrown <= 3
    /\ 0 <= req.VisitScore /\ req.VisitScore <= 180

\* C9: a throw with darts-thrown outside 1..3 or visit score outside 0..180
\* is rejected before any statement is sent, and so every throw of the log
\* has darts-thrown in 1..3 and visit score in 0..180.
C9_InputRange ==
    /\ \A i \in DOMAIN throws : InDomain(throws[i])
    /\ \A p \in Procs :
          (Returned(p, "AddThrow") /\ ~InDomain(call[p].req)) =>
              ret[p] # "ok" /\ loc[p].stmts = 0 /\ Unchanged(p)

\* C9 witness: a visit of 181 has been refused while the log holds an
\* accepted visit of 180.
C9_Witness ==
    /\ Returned(1, "AddThrow")
    /\ call[1].req.VisitScore = 181
    /\ ret[1] = "visitScore must be between 0 and 180"
    /\ \E i \in DOMAIN throws : throws[i].VisitScore = 180

\* C10: AddThrow by the current player of an existing, unfinished match, with
\* darts-thrown and visit score in their domains, is accepted and appended,
\* bust or not.
C10_BustAccepted ==
    \A p \in Procs :
        (/\ Returned(p, "AddThrow")
         /\ Before(p).gameRow # None
         /\ Before(p).gameRow[1].Status # "finished"
         /\ MatchWinnerOf(Before(p).throws) = None
         /\ InDomain(call[p].req)
         /\ call[p].req.PlayerID = TurnOf(Before(p).throws))
        => ret[p] = "ok" /\ AppendedTo(Before(p).throws, call[p].req)

\* The thrower's remaining score after log h, in the leg a next throw addresses.
RemainingAfter(h, pid) ==
    getGameState(gameRow[1], gamePlayers, h).Scores[SeatOf(pid)].Remaining[1]

\* C10 witness: an accepted AddThrow has appended, to a log of two throws or
\* more, a visit that busts: its candidate is below 0, or equal to 1 under
\* double-out.
C10_Witness ==
    /\ Returned(1, "AddThrow") /\ ret[1] = "ok"
    /\ gameRow # None /\ IsX01
    /\ Len(throws) >= 3
    /\ AppendedTo(Before(1).throws, call[1].req)
    /\ LET cand == RemainingAfter(Before(1).throws, call[1].req.PlayerID) - call[1].req.VisitScore
       IN cand < 0 \/ (Config.DoubleOut /\ cand = 1)

\* The lifecycle of log h by the rule: finished if the log reconstructs to a
\* match winner, else in progress if it has a throw, else pending.
LifecycleOf(h) ==
    IF MatchWinnerOf(h) # None THEN "finished"
    ELSE IF h # <<>> THEN "in_progress"
    ELSE "pending"

\* C16: the lifecycle derived from a reconstructed state is "finished" with
\* the match winner if there is one, else "in_progress" with no winner if the
\* log is non-empty, else "pending" with no winner; no other status is ever
\* derived or stored.
C16_Lifecycle ==
    /\ gameRow # None => gameRow[1].Status \in {"pending", "in_progress", "finished"}
    /\ \A p \in Procs :
          /\ pc[p] = "update" =>
                /\ loc[p].newStatus = LifecycleOf(throws)
                /\ loc[p].winnerID = MatchWinnerOf(throws)
          /\ (pc[p] = "idle" /\ ret[p] = "ok") =>
                /\ gameRow # None
                /\ gameRow[1].Status = LifecycleOf(throws)
                /\ gameRow[1].WinnerID = MatchWinnerOf(throws)
                /\ gameRow[1].WinnerID # None <=> gameRow[1].Status = "finished"

\* C16 witness: the undo of the throw that sealed the match has brought the
\* stored lifecycle back from finished, with its winner, to in progress.
C16_Witness ==
    /\ Returned(1, "UndoLastThrow") /\ ret[1] = "ok"
    /\ Before(1).gameRow[1].Status = "finished"
    /\ Before(1).gameRow[1].WinnerID # None
    /\ gameRow[1].Status = "in_progress"
    /\ gameRow[1].WinnerID = None
    /\ throws # <<>>

\* C18: AddThrow of an accepted throw followed by UndoLastThrow yields the
\* log that existed before the append, and the same reconstructed state,
\* stored status and stored winner.
C18_UndoInvertsAdd ==
    \A p \in Procs :
        (Returned(p, "UndoLastThrow") /\ ret[p] = "ok" /\ loc[p].prev # None) =>
            /\ throws = loc[p].prev[1].throws
            /\ gameRow = loc[p].prev[1].gameRow
            /\ getGameState(gameRow[1], gamePlayers, throws)
                 = getGameState(loc[p].prev[1].gameRow[1], gamePlayers, loc[p].prev[1].throws)

\* C19: UndoLastThrow on a non-empty log removes exactly one throw, the last
\* in the order of replay, and leaves the others and their order unchanged;
\* on an empty log it fails with the empty-undo condition and the log is
\* unchanged.
C19_UndoLast ==
    \A p \in Procs :
        Returned(p, "UndoLastThrow") =>
            IF Before(p).throws # <<>>
            THEN /\ ret[p] = "ok"
                 /\ throws = SubSeq(Before(p).throws, 1, Len(Before(p).throws) - 1)
            ELSE /\ ret[p] = "no throws to undo"
                 /\ Unchanged(p)

\* C19 witness: an undo has removed the last of three throws or more.
C19_Witness ==
    /\ Returned(1, "UndoLastThrow") /\ ret[1] = "ok"
    /\ Len(Before(1).throws) >= 3
    /\ Len(throws) = Len(Before(1).throws) - 1

\* The request has no mode (after trimming), legs <= 0, sets <= 0 or no player.
InvalidCreate(req) ==
    \/ req.Config.Mode \in {"", " "}
    \/ req.Config.Legs <= 0
    \/ req.Config.Sets <= 0
    \/ req.PlayerIDs = <<>>

\* C20: CreateGame with a missing mode, legs <= 0, sets <= 0 or no player
\* fails and creates no match and no seats; none of these values is defaulted:
\* a stored configuration has them as requested, and the thresholds of the
\* replay are the stored ones.  Only an absent starting score is defaulted, to
\* 501, when scores are derived.
C20_CreateRejects ==
    /\ \A p \in Procs :
          /\ (Returned(p, "CreateGame") /\ InvalidCreate(call[p].req)) =>
                /\ ret[p] # "ok"
                /\ gameRow = None /\ gamePlayers = <<>>
                /\ loc[p].stmts = 0
          /\ (Returned(p, "CreateGame") /\ ret[p] = "ok") =>
                /\ Config.Legs = call[p].req.Config.Legs
                /\ Config.Sets = call[p].req.Config.Sets
                /\ Config.StartingScore = call[p].req.Config.StartingScore
                /\ gamePlayers = call[p].req.PlayerIDs
    /\ gameRow # None =>
          /\ Config.Mode # "" /\ Config.Legs > 0 /\ Config.Sets > 0 /\ gamePlayers # <<>>
          /\ IsX01 =>
                LET state == getGameState(gameRow[1], gamePlayers, <<>>) IN
                /\ state.MatchScore[1].Sets[1].LegsToWin = Config.Legs
                /\ state.MatchScore[1].SetsToWin = Config.Sets
                /\ \A i \in DOMAIN state.Scores :
                      state.Scores[i].Remaining =
                          IF Config.StartingScore = None THEN Some(501) ELSE Config.StartingScore

\* C20 witness: a request with legs 0 has been refused with nothing stored.
C20_Witness ==
    /\ Returned(1, "CreateGame")
    /\ call[1].req.Config.Legs = 0
    /\ ret[1] = "legs must be > 0"
    /\ gameRow = None

\* C21: GetGame, AddThrow and UndoLastThrow on a match of which no
\* configuration is stored fail with "game not found", and with no other
\* condition, and change nothing.
C21_UnknownMatch ==
    \A p \in Procs :
        (/\ \/ Returned(p, "GetGame")
            \/ Returned(p, "AddThrow")
            \/ Returned(p, "UndoLastThrow")
         /\ Before(p).gameRow = None)
        => ret[p] = "game not found" /\ Unchanged(p)

\* The (status, winner) pairs syncGameStatus can derive from the stored log.
DerivedPairs ==
    LET state == getGameState(gameRow[1], gamePlayers, throws) IN
    {<<newStatusOf(w, throws), w>> : w \in syncWinners(state)}

\* syncGameStatus, applied to the state loaded now, returns without an UPDATE.
SyncWritesNothing ==
    LET state == getGameState(gameRow[1], gamePlayers, throws) IN
    \A w \in syncWinners(state) : syncUnchanged(state, w)

\* C25: syncGameStatus is idempotent.  Once a call that ends with it has
\* returned, a second application to the state derived from the unchanged log
\* derives the one pair that is stored and sends no UPDATE (a GetGame then
\* sends its three SELECTs and nothing else); and an UPDATE is sent only when
\* the derived status or the derived winner is not the stored one.
C25_SyncIdempotent ==
    \A p \in Procs :
        /\ pc[p] = "update" =>
              \/ loc[p].newStatus # gameRow[1].Status
              \/ loc[p].winnerID # gameRow[1].WinnerID
        /\ (pc[p] = "idle" /\ ret[p] = "ok") =>
              /\ DerivedPairs = {<<gameRow[1].Status, gameRow[1].WinnerID>>}
              /\ SyncWritesNothing
        /\ (/\ Returned(p, "GetGame") /\ ret[p] = "ok"
            /\ <<Before(p).gameRow[1].Status, Before(p).gameRow[1].WinnerID>> \in DerivedPairs)
           => loc[p].stmts = 3 /\ Unchanged(p)

\* C25 witness: an AddThrow has sealed the match and its syncGameStatus has
\* stored "finished" with the winner; the GetGame after it has applied
\* syncGameStatus again and sent no UPDATE.
C25_Witness ==
    /\ Returned(1, "GetGame") /\ ret[1] = "ok"
    /\ loc[1].prev # None
    /\ loc[1].prev[1].gameRow[1].Status # "finished"
    /\ gameRow[1].Status = "finished" /\ gameRow[1].WinnerID # None
    /\ loc[1].stmts = 3
    /\ Unchanged(1)

\* C30: with requests served one after the other, the k-th throw of the log
\* is by the player at seat ((k - 1) mod N) + 1 of the N seated players.
C30_LogCyclesSeats ==
    gameRow # None =>
        \A k \in DOMAIN throws :
            throws[k].PlayerID = gamePlayers[((k - 1) % Len(gamePlayers)) + 1]

\* C30 witness: after an undo, a log of two seats holds three throws, the
\* third by seat 1 again.
C30_Witness ==
    /\ Returned(1, "AddThrow") /\ ret[1] = "ok"
    /\ Len(gamePlayers) = 2
    /\ Len(throws) = 3 /\ nextId = 4
    /\ throws[3].PlayerID = gamePlayers[1]

\* C31: with requests served one after the other and no statement failing,
\* after every completed CreateGame, GetGame, AddThrow and UndoLastThrow the
\* stored status and winner of the match are those derived by replaying its
\* throw log.
C31_StoredIsDerived ==
    \A p \in Procs :
        (/\ \/ Returned(p, "CreateGame")
            \/ Returned(p, "GetGame")
            \/ Returned(p, "AddThrow")
            \/ Returned(p, "UndoLastThrow")
         /\ gameRow # None)
        => /\ DerivedPairs = {<<gameRow[1].Status, gameRow[1].WinnerID>>}
           /\ gameRow[1].Status = LifecycleOf(throws)
           /\ gameRow[1].WinnerID = MatchWinnerOf(throws)

\* C31 witness: an AddThrow has been refused on a match that the second seat
\* has won, the stored status being "finished" and the stored winner that seat.
C31_Witness ==
    /\ Returned(1, "AddThrow") /\ ret[1] = "game is already finished"
    /\ Len(gamePlayers) = 2
    /\ gameRow[1].Status = "finished"
    /\ gameRow[1].WinnerID = Some(gamePlayers[2])
    /\ MatchWinnerOf(throws) = Some(gamePlayers[2])

\* The step changes the stored status of the match.
StatusMoves == gameRow # None /\ gameRow' # None /\ gameRow'[1].Status # gameRow[1].Status

\* A move of the stored status is one of: pending to in_progress or finished
\* by an AddThrow on an empty log; in_progress to finished by the AddThrow
\* whose throw seals the match; in_progress to pending by the UndoLastThrow
\* that empties the log; finished to another status by an UndoLastThrow.
LifecycleMove ==
    StatusMoves =>
        \E p \in Procs :
            /\ pc[p] = "update" /\ pc'[p] = "idle"
            /\ LET from == gameRow[1].Status
                   to == gameRow'[1].Status
               IN CASE from = "pending" ->
                          /\ to \in {"in_progress", "finished"}
                          /\ call[p].op = "AddThrow"
                          /\ Before(p).throws = <<>>
                          /\ AppendedTo(<<>>, call[p].req)
                    [] from = "in_progress" /\ to = "finished" ->
                          /\ call[p].op = "AddThrow"
                          /\ AppendedTo(Before(p).throws, call[p].req)
                          /\ MatchWinnerOf(Before(p).throws) = None
                          /\ MatchWinnerOf(throws) # None
                    [] from = "in_progress" /\ to = "pending" ->
                          /\ call[p].op = "UndoLastThrow"
                          /\ throws = <<>>
                    [] from = "finished" ->
                          /\ call[p].op = "UndoLastThrow"
                          /\ LastRemovedFrom(Before(p).throws)
                    [] OTHER -> FALSE

\* An AddThrow on a match stored as finished changes nothing, and an
\* UndoLastThrow that empties the log leaves the match pending.
LifecycleEnds ==
    \A p \in Procs :
        /\ (Returned(p, "AddThrow") /\ Before(p).gameRow # None
              /\ Before(p).gameRow[1].Status = "finished")
           => ret[p] # "ok" /\ Unchanged(p)
        /\ (Returned(p, "UndoLastThrow") /\ ret[p] = "ok" /\ throws = <<>>)
           => gameRow[1].Status = "pending" /\ gameRow[1].WinnerID = None

\* C32: with requests served one after the other the stored lifecycle moves
\* only from pending to in_progress or finished by an accepted AddThrow on an
\* empty log, from in_progress to finished by the AddThrow that seals the
\* match, and out of finished by UndoLastThrow; no AddThrow changes a
\* finished match, and the UndoLastThrow that empties the log returns the
\* match to pending.
C32_LifecycleMoves == []LifecycleEnds /\ [][LifecycleMove]_vars

\* Request p has returned from an UndoLastThrow that removed the throw that
\* sealed the match, the match being stored as finished.
UndoneSeal(p) ==
    /\ Returned(p, "UndoLastThrow") /\ ret[p] = "ok"
    /\ Before(p).gameRow[1].Status = "finished"
    /\ Before(p).throws # <<>>
    /\ MatchWinnerOf(Before(p).throws) # None
    /\ MatchWinnerOf(SubSeq(Before(p).throws, 1, Len(Before(p).throws) - 1)) = None

\* The throw the UndoLastThrow of request p found last in the log.
RemovedBy(p) == Before(p).throws[Len(Before(p).throws)]

\* AddThrow's checks, of the request and of the state loaded now, let the
\* removed throw of request p's undo be thrown again.
AcceptedAgain(p) ==
    LET req == [PlayerID |-> RemovedBy(p).PlayerID, VisitScore |-> RemovedBy(p).VisitScore,
                DartsThrown |-> RemovedBy(p).DartsThrown]
    IN /\ validateRequest(req) = ""
       /\ validateThrow(getGameState(gameRow[1], gamePlayers, throws), req) = ""

\* C33: UndoLastThrow is permitted on a finished match: the undo of the
\* throw that sealed the match leaves the stored status "in_progress"
\* ("pending" if the log is empty) and no stored winner, the current player is
\* the player whose throw was removed, and AddThrow accepts that player again.
C33_UndoReopens ==
    \A p \in Procs :
        UndoneSeal(p) =>
            /\ LastRemovedFrom(Before(p).throws)
            /\ gameRow[1].Status = IF throws = <<>> THEN "pending" ELSE "in_progress"
            /\ gameRow[1].WinnerID = None
            /\ getGameState(gameRow[1], gamePlayers, throws).CurrentPlayerID = RemovedBy(p).PlayerID
            /\ AcceptedAgain(p)

\* C33 witness: the second seat's sealing throw has been undone, throws of
\* both seats staying in the log, and the second seat may throw again.
C33_Witness ==
    /\ UndoneSeal(1)
    /\ Len(gamePlayers) = 2
    /\ RemovedBy(1).PlayerID = gamePlayers[2]
    /\ Len(throws) >= 2
    /\ Before(1).gameRow[1].WinnerID = Some(gamePlayers[2])
    /\ AcceptedAgain(1)

\* C37: a match whose mode is not "X01" never reaches "finished": the status
\* derived from its log is "pending" when the log is empty and "in_progress"
\* otherwise, with no winner; nothing else is stored or about to be stored,
\* and no AddThrow is refused as already finished.
C37_NonX01NeverFinished ==
    (gameRow # None /\ ~IsX01) =>
        /\ DerivedPairs = {<<IF throws = <<>> THEN "pending" ELSE "in_progress", None>>}
        /\ getGameState(gameRow[1], gamePlayers, throws).MatchScore = None
        /\ gameRow[1].Status # "finished" /\ gameRow[1].WinnerID = None
        /\ \A p \in Procs :
              /\ pc[p] = "update" => loc[p].newStatus # "finished" /\ loc[p].winnerID = None
              /\ Returned(p, "AddThrow") => ret[p] # "game is already finished"

\* C37 witness: the fourth throw of a match of another mode has been
\* accepted, a visit of 180 among them, and the match is in progress.
C37_Witness ==
    /\ gameRow # None /\ ~IsX01
    /\ Returned(1, "AddThrow") /\ ret[1] = "ok"
    /\ Len(throws) = 4
    /\ \E k \in DOMAIN throws : throws[k].VisitScore = MaxVisit
    /\ gameRow[1].Status = "in_progress"

====
